---- MODULE Spec2Model ----
(***************************************************************************)
(* GeoViz 3D excavation configurator (App, Sidebar, ExcavationModel).      *)
(*                                                                         *)
(* State: the React state of App (dimensions, colors, isExploded), the     *)
(* useMemo cells derived from it (surfaces, totalArea, sfidoData,          *)
(* totalAreaConSfido), the closure held by useCallback (handleExportPDF)   *)
(* and the jsPDF document of the export invocation, with the time the      *)
(* invocation read from the clock (pdf).  previous holds what the last     *)
(* export that returned has produced, with the model it was invoked on     *)
(* (SpecRuns only).  isoCalls holds the last two applications of the       *)
(* isometric projector (SpecIso only).  position holds the animated        *)
(* coordinate of the five groups of the 3D model and frames counts the     *)
(* frames rendered (SpecAnim only).                                        *)
(*                                                                         *)
(* Numbers.  A JavaScript number is modelled as an exact rational          *)
(* [n |-> numerator, d |-> denominator], reduced, d >= 0.  d = 0 encodes   *)
(* the non-finite values: 1/0 = Infinity, -1/0 = -Infinity, 0/0 = NaN.     *)
(* The rational is the exact value of the expression the code computes;    *)
(* the double the code holds differs from it by the rounding of each       *)
(* operation.  Where the rounding decides, the double is computed, in      *)
(* IEEE 754 binary64, operation by operation: a decimal tie of toFixed,    *)
(* sSfido at 2 or 6, and the whole layout of page 1 when the terms of its  *)
(* extent cancel, so that the code divides by what the roundings have      *)
(* left.  TLC's integers are 32 bits wide: values whose numerator or       *)
(* denominator passes 2^31 cannot be evaluated.                            *)
(*                                                                         *)
(* Strings that the program parses (typed text, colour strings) are        *)
(* sequences of UTF-16 code units, so slicing and parsing are computed     *)
(* unit by unit.                                                           *)
(***************************************************************************)
EXTENDS Integers, Sequences, FiniteSets, TLC

VARIABLES dimensions, colors, isExploded,
          surfaces, totalArea, sfidoData, totalAreaConSfido,
          handleExportPDF, pdf, previous, isoCalls, position, frames

vars == <<dimensions, colors, isExploded,
          surfaces, totalArea, sfidoData, totalAreaConSfido,
          handleExportPDF, pdf, previous, isoCalls, position, frames>>

-----------------------------------------------------------------------------
(* JavaScript numbers *)

Abs(i) == IF i < 0 THEN -i ELSE i

Sign(i) == IF i < 0 THEN -1 ELSE IF i > 0 THEN 1 ELSE 0

RECURSIVE Gcd(_, _)
Gcd(a, b) == IF b = 0 THEN a ELSE Gcd(b, a % b)

\* n/d reduced to lowest terms with d >= 0; n/0 becomes Sign(n)/0
Q(n, d) ==
  IF d = 0 THEN [n |-> Sign(n), d |-> 0]
  ELSE LET g == Gcd(Abs(n), Abs(d))
           s == IF d < 0 THEN -1 ELSE 1
       IN  [n |-> (s * n) \div g, d |-> (s * d) \div g]

I(i) == [n |-> i, d |-> 1]

NaN == [n |-> 0, d |-> 0]

Infinity == [n |-> 1, d |-> 0]

IsNaN(a) == a.d = 0 /\ a.n = 0

IsFinite(a) == a.d # 0

Neg(a) == [n |-> -a.n, d |-> a.d]

\* a + b : Infinity + Infinity = Infinity, Infinity + -Infinity = NaN
Add(a, b) ==
  IF a.d = 0 /\ b.d = 0
  THEN (IF a.n = b.n THEN a ELSE NaN)
  ELSE LET g == Gcd(a.d, b.d)
       IN  Q(a.n * (b.d \div g) + b.n * (a.d \div g), (a.d \div g) * b.d)

Sub(a, b) == Add(a, Neg(b))

\* a * b : 0 * Infinity = NaN
Mul(a, b) == Q(a.n * b.n, a.d * b.d)

\* a / b : x / 0 = +-Infinity, 0 / 0 = NaN, Infinity / Infinity = NaN
Div(a, b) ==
  IF a.d = 0 /\ b.d = 0 THEN NaN
  ELSE Q(a.n * b.d * (IF b.n < 0 THEN -1 ELSE 1), a.d * Abs(b.n))

\* a < b : false when either side is NaN
Lt(a, b) ==
  /\ ~IsNaN(a)
  /\ ~IsNaN(b)
  /\ IF a.d = 0 /\ b.d = 0 THEN a.n < b.n
     ELSE LET g == Gcd(a.d, b.d)
          IN  a.n * (b.d \div g) < b.n * (a.d \div g)

Gt(a, b) == Lt(b, a)

Le(a, b) == ~IsNaN(a) /\ ~IsNaN(b) /\ ~Lt(b, a)

\* Math.min / Math.max : NaN when either argument is NaN
MathMin(a, b) == IF IsNaN(a) \/ IsNaN(b) THEN NaN ELSE IF Lt(b, a) THEN b ELSE a

MathMax(a, b) == IF IsNaN(a) \/ IsNaN(b) THEN NaN ELSE IF Lt(a, b) THEN b ELSE a

\* JavaScript truthiness of a number: 0 and NaN are falsy
Truthy(a) == ~IsNaN(a) /\ a.n # 0

RECURSIVE Pow10(_)
Pow10(k) == IF k = 0 THEN 1 ELSE 10 * Pow10(k - 1)

RECURSIVE PadZeros(_, _)
PadZeros(s, k) == IF Len(s) >= k THEN s ELSE PadZeros("0" \o s, k)

-----------------------------------------------------------------------------
(* IEEE 754 binary64, the numbers the code computes with.  The values of   *)
(* the model are the exact values of the code's expressions; where the     *)
(* code decides on a number (the digit toFixed rounds to, sSfido > 2) the  *)
(* exact value decides alike unless it is the tie or the threshold itself: *)
(* a double differs from the exact value by less than the distance to it.  *)
(* There the double is computed, operation by operation as the code does.  *)
(* A natural number is the sequence of its base-2^15 digits, lowest first; *)
(* a double is its class c, sign s and the value m * 2^e, m below 2^53.    *)
(* The range of the exponent and the sign of zero are not modelled.        *)

LimbBits == 15

Base == 32768

MantissaBits == 53

RECURSIVE Pow2(_)
Pow2(k) == IF k = 0 THEN 1 ELSE 2 * Pow2(k - 1)

RECURSIVE IntBits(_)
IntBits(n) == IF n = 0 THEN 0 ELSE 1 + IntBits(n \div 2)

RECURSIVE BNorm(_)
BNorm(a) ==
  IF a # <<>> /\ a[Len(a)] = 0 THEN BNorm(SubSeq(a, 1, Len(a) - 1)) ELSE a

RECURSIVE BNat(_)
BNat(n) == IF n = 0 THEN <<>> ELSE <<n % Base>> \o BNat(n \div Base)

Limb(a, i) == IF i <= Len(a) THEN a[i] ELSE 0

MaxLen(a, b) == IF Len(a) > Len(b) THEN Len(a) ELSE Len(b)

\* -1, 0, 1 as a < b, a = b, a > b
RECURSIVE BCmpAt(_, _, _)
BCmpAt(a, b, i) ==
  IF i = 0 THEN 0
  ELSE IF Limb(a, i) < Limb(b, i) THEN -1
  ELSE IF Limb(a, i) > Limb(b, i) THEN 1
  ELSE BCmpAt(a, b, i - 1)

BCmp(a, b) == BCmpAt(a, b, MaxLen(a, b))

RECURSIVE BAddAt(_, _, _, _)
BAddAt(a, b, i, c) ==
  IF i > MaxLen(a, b) THEN (IF c = 0 THEN <<>> ELSE <<c>>)
  ELSE <<(Limb(a, i) + Limb(b, i) + c) % Base>>
         \o BAddAt(a, b, i + 1, (Limb(a, i) + Limb(b, i) + c) \div Base)

BAdd(a, b) == BAddAt(a, b, 1, 0)

\* a - b for a >= b
RECURSIVE BSubAt(_, _, _, _)
BSubAt(a, b, i, c) ==
  IF i > Len(a) THEN <<>>
  ELSE <<(a[i] - Limb(b, i) - c + Base) % Base>>
         \o BSubAt(a, b, i + 1, IF a[i] - Limb(b, i) - c < 0 THEN 1 ELSE 0)

BSub(a, b) == BNorm(BSubAt(a, b, 1, 0))

\* a * k for a digit k
RECURSIVE BMulSmallAt(_, _, _, _)
BMulSmallAt(a, k, i, c) ==
  IF i > Len(a) THEN (IF c = 0 THEN <<>> ELSE <<c>>)
  ELSE <<(a[i] * k + c) % Base>>
         \o BMulSmallAt(a, k, i + 1, (a[i] * k + c) \div Base)

BMulSmall(a, k) == IF k = 0 THEN <<>> ELSE BMulSmallAt(a, k, 1, 0)

RECURSIVE BMulAt(_, _, _)
BMulAt(a, b, i) ==
  IF i > Len(b) THEN <<>>
  ELSE BAdd(BMulSmall(a, b[i]), <<0>> \o BMulAt(a, b, i + 1))

BMul(a, b) == BNorm(BMulAt(a, b, 1))

\* a * 2^k
BShl(a, k) ==
  IF a = <<>> THEN <<>>
  ELSE [i \in 1..(k \div LimbBits) |-> 0] \o BMulSmall(a, Pow2(k % LimbBits))

\* the remainder of the digits of a from the i-th up, divided by the digit k
RECURSIVE BRemAt(_, _, _)
BRemAt(a, k, i) ==
  IF i > Len(a) THEN 0 ELSE (BRemAt(a, k, i + 1) * Base + a[i]) % k

\* a \div k for a digit k > 0
BDivSmall(a, k) ==
  BNorm([i \in 1..Len(a) |-> (BRemAt(a, k, i + 1) * Base + a[i]) \div k])

\* a \div 2^k
BShr(a, k) ==
  BDivSmall(SubSeq(a, (k \div LimbBits) + 1, Len(a)), Pow2(k % LimbBits))

BBitLen(a) ==
  IF a = <<>> THEN 0 ELSE LimbBits * (Len(a) - 1) + IntBits(a[Len(a)])

\* bit i of a, the lowest being bit 0
Bit(a, i) == (Limb(a, (i \div LimbBits) + 1) \div Pow2(i % LimbBits)) % 2

BIsOdd(a) == Bit(a, 0) = 1

\* The quotient digit r \div b for r < b * Base, the highest digit of b being
\* Base / 2 or more: est, taken from the two highest digits of r, is at most
\* 2 above it.
RECURSIVE QuotientDigit(_, _, _)
QuotientDigit(r, b, est) ==
  IF BCmp(BMulSmall(b, est), r) > 0 THEN QuotientDigit(r, b, est - 1) ELSE est

MinInt(i, j) == IF i < j THEN i ELSE j

Estimate(r, b) ==
  MinInt(Base - 1, (Limb(r, Len(b) + 1) * Base + Limb(r, Len(b))) \div b[Len(b)])

\* Long division of a by b, digit by digit from the highest: the digits
\* a[i], ..., a[1] remain to be brought down, q holds the digits of the
\* quotient taken so far and r the remainder under them.
\* <<quotient, remainder>>.
RECURSIVE LongDiv(_, _, _, _, _)
TakeDigit(a, b, i, q, r, qd) ==
  LongDiv(a, b, i - 1, <<qd>> \o q, BSub(r, BMulSmall(b, qd)))

\* a remainder below b gives the digit 0
BringDown(a, b, i, q, r) ==
  IF BCmp(r, b) < 0 THEN LongDiv(a, b, i - 1, <<0>> \o q, r)
  ELSE TakeDigit(a, b, i, q, r, QuotientDigit(r, b, Estimate(r, b)))

LongDiv(a, b, i, q, r) ==
  IF i = 0 THEN <<q, r>> ELSE BringDown(a, b, i, q, BNorm(<<a[i]>> \o r))

\* the shift that brings the highest digit of b to Base / 2 or more
NormShift(b) == LimbBits - IntBits(b[Len(b)])

\* <<a \div b, (a % b) * 2^NormShift(b)>> for b > 0
BDivMod(a, b) ==
  LongDiv(BShl(a, NormShift(b)), BShl(b, NormShift(b)),
          Len(BShl(a, NormShift(b))), <<>>, <<>>)

Finite(s, m, e) == [c |-> "finite", s |-> s, m |-> m, e |-> e]

DZero == Finite(1, <<>>, 0)

DInfinity(s) == [c |-> "infinite", s |-> s, m |-> <<>>, e |-> 0]

DNaN == [c |-> "nan", s |-> 1, m |-> <<>>, e |-> 0]

DIsZero(x) == x.c = "finite" /\ x.m = <<>>

DNeg(x) == [x EXCEPT !.s = -x.s]

\* m * 2^e with m of at most 54 bits after a carry: back to 53
Renormalize(s, m, e) ==
  IF BBitLen(m) > MantissaBits THEN Finite(s, BShr(m, 1), e + 1)
  ELSE Finite(s, m, e)

\* Round to nearest, ties to even: q is m without its sh low bits, half the
\* comparison of those bits with half a unit of q, sticky whether more of
\* the value lies below m.
RoundsUp(q, half, sticky) ==
  half > 0 \/ (half = 0 /\ (sticky \/ BIsOdd(q)))

RoundCut(s, m, q, sh, e, sticky) ==
  IF RoundsUp(q, BCmp(BShl(BSub(m, BShl(q, sh)), 1), BShl(<<1>>, sh)), sticky)
  THEN Renormalize(s, BAdd(q, <<1>>), e + sh)
  ELSE Finite(s, q, e + sh)

\* the double nearest to s * m * 2^e (and a little more when sticky)
DRound(s, m, e, sticky) ==
  IF m = <<>> THEN DZero
  ELSE IF BBitLen(m) <= MantissaBits THEN Finite(s, m, e)
  ELSE RoundCut(s, m, BShr(m, BBitLen(m) - MantissaBits),
                BBitLen(m) - MantissaBits, e, sticky)

\* the double of an integer i
DInt(i) == Finite(IF i < 0 THEN -1 ELSE 1, BNat(Abs(i)), 0)

\* x * y
DMul(x, y) ==
  IF x.c = "nan" \/ y.c = "nan" THEN DNaN
  ELSE IF x.c = "infinite" \/ y.c = "infinite"
  THEN (IF DIsZero(x) \/ DIsZero(y) THEN DNaN ELSE DInfinity(x.s * y.s))
  ELSE DRound(x.s * y.s, BMul(x.m, y.m), x.e + y.e, FALSE)

\* sx * mx + sy * my: <<sign, magnitude>>
SignedSum(sx, mx, sy, my, order) ==
  IF sx = sy THEN <<sx, BAdd(mx, my)>>
  ELSE IF order >= 0 THEN <<sx, BSub(mx, my)>>
  ELSE <<sy, BSub(my, mx)>>

RoundSum(sum, e) == DRound(sum[1], sum[2], e, FALSE)

AddAligned(sx, mx, sy, my, e) ==
  RoundSum(SignedSum(sx, mx, sy, my, BCmp(mx, my)), e)

\* x + y
DAdd(x, y) ==
  IF x.c = "nan" \/ y.c = "nan" THEN DNaN
  ELSE IF x.c = "infinite"
  THEN (IF y.c = "infinite" /\ y.s # x.s THEN DNaN ELSE x)
  ELSE IF y.c = "infinite" THEN y
  ELSE IF DIsZero(x) THEN y
  ELSE IF DIsZero(y) THEN x
  ELSE AddAligned(x.s, BShl(x.m, x.e - MinInt(x.e, y.e)),
                  y.s, BShl(y.m, y.e - MinInt(x.e, y.e)), MinInt(x.e, y.e))

DSub(x, y) == DAdd(x, DNeg(y))

\* the quotient <<q, r>> of a long division as a double: q * 2^e and more
QuotientRound(s, qr, e) == DRound(s, BNorm(qr[1]), e, qr[2] # <<>>)

\* the zeros brought down make the quotient 55 bits or more
QuotientZeros(x, y) == MantissaBits + 2 + BBitLen(y.m) - BBitLen(x.m)

\* x / y
DDiv(x, y) ==
  IF x.c = "nan" \/ y.c = "nan" THEN DNaN
  ELSE IF x.c = "infinite"
  THEN (IF y.c = "infinite" THEN DNaN ELSE DInfinity(x.s * y.s))
  ELSE IF y.c = "infinite" THEN DZero
  ELSE IF DIsZero(y) THEN (IF DIsZero(x) THEN DNaN ELSE DInfinity(x.s * y.s))
  ELSE IF DIsZero(x) THEN DZero
  ELSE QuotientRound(x.s * y.s,
                     BDivMod(BShl(x.m, QuotientZeros(x, y)), y.m),
                     x.e - y.e - QuotientZeros(x, y))

\* -1, 0, 1 as the double x is negative, zero, positive
DSign(x) == IF x.c = "nan" \/ DIsZero(x) THEN 0 ELSE x.s

\* -1, 0, 1 as x < y, x = y, x > y, for finite x and y of one sign s (or 0)
CmpAligned(s, mx, my) == s * BCmp(mx, my)

CmpFinite(x, y) ==
  IF DSign(x) < DSign(y) THEN -1
  ELSE IF DSign(x) > DSign(y) THEN 1
  ELSE CmpAligned(DSign(x), BShl(x.m, x.e - MinInt(x.e, y.e)),
                  BShl(y.m, y.e - MinInt(x.e, y.e)))

\* x < y
DLt(x, y) ==
  /\ x.c # "nan" /\ y.c # "nan"
  /\ IF x.c = "infinite" THEN x.s < 0 /\ ~(y.c = "infinite" /\ y.s < 0)
     ELSE IF y.c = "infinite" THEN y.s > 0
     ELSE CmpFinite(x, y) < 0

DGt(x, y) == DLt(y, x)

\* Math.min(x, y)
DMin(x, y) ==
  IF x.c = "nan" \/ y.c = "nan" THEN DNaN ELSE IF DLt(y, x) THEN y ELSE x

\* The double of a number read from text or written as a literal: the double
\* nearest to its value n / d, which is what the division of two integers
\* gives.
DoubleOf(a) == DDiv(DInt(a.n), DInt(a.d))

\* m * 2^e against n, for e of either sign: -1, 0, 1
CmpScaled(m, e, n) ==
  IF e >= 0 THEN BCmp(BShl(m, e), n) ELSE BCmp(m, BShl(n, -e))

\* The sign of |x| - |a| for a double x and an exact value a, both finite and
\* of the same sign: -1 when the double is the nearer to zero.
MagnitudeError(x, a) == CmpScaled(BMul(x.m, BNat(a.d)), x.e, BNat(Abs(a.n)))

\* Math.max(x, y)
DMax(x, y) ==
  IF x.c = "nan" \/ y.c = "nan" THEN DNaN ELSE IF DLt(x, y) THEN y ELSE x

\* |m - n| > n / 2^40, for naturals m and n
StraysBy(m, n) ==
  BCmp(BShl(IF BCmp(m, n) >= 0 THEN BSub(m, n) ELSE BSub(n, m), 40), n) > 0

\* Whether the double x of a sum of doubles strays from the exact value a of
\* the sum (finite) by more than the roundings of the additions amount to: by
\* more than |a| / 2^40.  It does when the terms cancel: the sum then is what
\* the roundings left, and a quotient by it is not near the quotient by a.
Strays(x, a) ==
  IF a.n = 0 THEN ~DIsZero(x)
  ELSE \/ DSign(x) # Sign(a.n)
       \/ IF x.e >= 0
          THEN StraysBy(BShl(BMul(x.m, BNat(a.d)), x.e), BNat(Abs(a.n)))
          ELSE StraysBy(BMul(x.m, BNat(a.d)), BShl(BNat(Abs(a.n)), -x.e))

\* A number of the page-1 layout is its exact value n / d or, where the
\* layout is computed in doubles, a double: the operations of the layout on
\* either, both operands being of the one kind.
IsDouble(a) == "c" \in DOMAIN a

\* the literal q, and the integer literal i, next to the number a
Lit(a, q) == IF IsDouble(a) THEN DoubleOf(q) ELSE q

LitInt(a, i) == IF IsDouble(a) THEN DInt(i) ELSE I(i)

Plus(a, b) == IF IsDouble(a) THEN DAdd(a, b) ELSE Add(a, b)

Minus(a, b) == IF IsDouble(a) THEN DSub(a, b) ELSE Sub(a, b)

Times(a, b) == IF IsDouble(a) THEN DMul(a, b) ELSE Mul(a, b)

Over(a, b) == IF IsDouble(a) THEN DDiv(a, b) ELSE Div(a, b)

Least(a, b) == IF IsDouble(a) THEN DMin(a, b) ELSE MathMin(a, b)

Greatest(a, b) == IF IsDouble(a) THEN DMax(a, b) ELSE MathMax(a, b)

\* a / 2: the halving of a double is exact
HalfOf(a) ==
  IF ~IsDouble(a) THEN Div(a, I(2))
  ELSE IF a.c = "finite" /\ a.m # <<>> THEN [a EXCEPT !.e = a.e - 1]
  ELSE a

-----------------------------------------------------------------------------
(* Number to text *)

\* the exponent of 2 in d, and d without its factors 2
RECURSIVE TwoExponent(_)
TwoExponent(d) == IF d % 2 = 0 THEN 1 + TwoExponent(d \div 2) ELSE 0

RECURSIVE OddPart(_)
OddPart(d) == IF d % 2 = 0 THEN OddPart(d \div 2) ELSE d

\* floor(log2(n / d)) for n, d > 0
RECURSIVE Log2Floor(_, _)
Log2Floor(n, d) ==
  IF n >= d
  THEN (IF n - d < d THEN 0 ELSE 1 + Log2Floor(n \div 2, d))
  ELSE Log2Floor(2 * n, d) - 1

\* x * y mod o and 2^k mod o, with no intermediate value beyond 2 * o
RECURSIVE MulMod(_, _, _)
MulMod(x, y, o) ==
  IF y = 0 THEN 0
  ELSE (2 * MulMod(x, y \div 2, o) + (IF y % 2 = 1 THEN x % o ELSE 0)) % o

SquareMod(h, o) == MulMod(h, h, o)

RECURSIVE PowMod2(_, _)
PowMod2(k, o) ==
  IF k = 0 THEN 1 % o
  ELSE (SquareMod(PowMod2(k \div 2, o), o) * (IF k % 2 = 1 THEN 2 ELSE 1)) % o

\* The sign of (the double nearest to n / d) - n / d, for n, d > 0: 0 when
\* n / d is a double itself; what MagnitudeError(DoubleOf(a), a) is for
\* a = n / d, found without the division.  With d = 2^s * o, o odd, and
\* 2^52 <= (n / d) * 2^e < 2^53, the 53-bit significand is (n / d) * 2^e
\* rounded to the nearest integer, and the fraction of (n / d) * 2^e is
\* ((n * 2^(e - s)) mod o) / o: r / o below, with k = e - s.
HalfSign(r, o) == IF r > o - r THEN 1 ELSE -1

SignificandError(n, o, k) ==
  IF o = 1 \/ k < 0 THEN 0 ELSE HalfSign(MulMod(n % o, PowMod2(k, o), o), o)

DoubleError(n, d) ==
  SignificandError(n, OddPart(d), 52 - Log2Floor(n, d) - TwoExponent(d))

\* low + rem / d rounded to the nearest integer, the larger one when two are
\* as near.  The exact value is half-way only on a decimal tie, and there
\* the double decides: err is the sign of |double| - |exact value|.
RoundToInteger(low, rem, d, err) ==
  IF rem > d - rem \/ (rem = d - rem /\ err >= 0) THEN low + 1 ELSE low

\* the digits of m / p with k fraction digits (p = 10^k), after the sign
FixedDigits(neg, m, p, k) ==
  (IF neg THEN "-" ELSE "")
    \o (IF k = 0 THEN ToString(m)
        ELSE ToString(m \div p) \o "." \o PadZeros(ToString(m % p), k))

FixedOf(neg, n, d, p, k, err) ==
  FixedDigits(neg, RoundToInteger((n * p) \div d, (n * p) % d, d, err), p, k)

\* x.toFixed(k) for the double x of a computation whose exact value is a:
\* "NaN", "Infinity", "-Infinity" when not finite; else the integer m for
\* which m / 10^k is nearest to x, the larger m when two are as near, printed
\* with k fraction digits after the sign of x
ToFixedOf(a, x, k) ==
  IF IsNaN(a) THEN "NaN"
  ELSE IF a.d = 0 THEN (IF a.n > 0 THEN "Infinity" ELSE "-Infinity")
  ELSE IF a.n = 0 THEN FixedDigits(DSign(x) < 0, 0, Pow10(k), k)
  ELSE FixedOf(a.n < 0, Abs(a.n), a.d, Pow10(k), k, MagnitudeError(x, a))

\* x.toFixed(k) for a number x read from text or written as a literal: the
\* double nearest to its value a
ToFixed(a, k) ==
  IF IsNaN(a) THEN "NaN"
  ELSE IF a.d = 0 THEN (IF a.n > 0 THEN "Infinity" ELSE "-Infinity")
  ELSE FixedOf(a.n < 0, Abs(a.n), a.d, Pow10(k), k, DoubleError(Abs(a.n), a.d))

\* a > c for an integer c and a number a of the layout: a double, or the
\* exact value of a computation whose double is x
GtOf(a, x, c) ==
  IF IsDouble(a) THEN DGt(a, DInt(c))
  ELSE IF a = I(c) THEN DGt(x, DInt(c))
  ELSE Gt(a, I(c))

\* the decimal digits of rem / d (0 <= rem < d) by long division, at most k
RECURSIVE FractionDigits(_, _, _)
FractionDigits(rem, d, k) ==
  IF rem = 0 \/ k = 0 THEN ""
  ELSE ToString((rem * 10) \div d) \o FractionDigits((rem * 10) % d, d, k - 1)

\* the number of zeros after the point before the first digit that is not 0,
\* for 0 < rem < d
RECURSIVE LeadingZeros(_, _)
LeadingZeros(rem, d) ==
  IF rem * 10 >= d THEN 0 ELSE 1 + LeadingZeros(rem * 10, d)

RECURSIVE Zeros(_)
Zeros(k) == IF k = 0 THEN "" ELSE "0" \o Zeros(k - 1)

PointAndDigits(fr) == IF fr = "" THEN "" ELSE "." \o fr

\* d.ddde-n: r1 / d is the value scaled to [0.1, 1), z its zeros before
ExponentForm(r1, d, z) ==
  ToString((r1 * 10) \div d)
    \o PointAndDigits(FractionDigits((r1 * 10) % d, d, 16))
    \o "e-" \o ToString(z + 1)

\* n / d < 1 with z zeros after the point: plain digits down to 1e-6
SmallToString(n, d, z) ==
  IF z <= 5 THEN "0." \o Zeros(z) \o FractionDigits(n * Pow10(z), d, 17)
  ELSE ExponentForm(n * Pow10(z), d, z)

IntegerAndFraction(ip, rem, d) ==
  ip \o PointAndDigits(FractionDigits(rem, d, 17 - Len(ip)))

\* Number::toString(x) as used by template literals, for x = n / d > 0: the
\* digits of x, with a point where it falls, "0." and up to five zeros before
\* them when x < 1, and the exponent form d.ddde-n from 1e-7 downwards.  A
\* value of at most 15 significant digits prints as itself (every value a
\* typed decimal text gives within TLC's integers); at most 17 digits are
\* produced.
PositiveToString(n, d) ==
  IF n >= d THEN IntegerAndFraction(ToString(n \div d), n % d, d)
  ELSE SmallToString(n, d, LeadingZeros(n, d))

\* String(number): "NaN", "Infinity", "-Infinity", "0", else the digits
NumToString(a) ==
  IF ~IsFinite(a) THEN ToFixed(a, 0)
  ELSE IF a.n = 0 THEN "0"
  ELSE (IF a.n < 0 THEN "-" ELSE "") \o PositiveToString(Abs(a.n), a.d)

-----------------------------------------------------------------------------
(* Parsing of typed text and of colour strings *)

\* A text the program parses is the sequence of its UTF-16 code units.
\* The characters of the code units 32 to 95, and 97 to 126, in order.
AsciiBelowGrave ==
  " !\"#$%&'()*+,-./0123456789:;<=>?@ABCDEFGHIJKLMNOPQRSTUVWXYZ[\\]^_"

AsciiAboveGrave == "abcdefghijklmnopqrstuvwxyz{|}~"

IndexIn(str, ch) == CHOOSE i \in 1..Len(str) : SubSeq(str, i, i) = ch

\* the code unit of the character ch
CodeUnit(ch) ==
  IF \E i \in 1..Len(AsciiBelowGrave) : SubSeq(AsciiBelowGrave, i, i) = ch
  THEN 31 + IndexIn(AsciiBelowGrave, ch)
  ELSE 96 + IndexIn(AsciiAboveGrave, ch)

\* the code units of the text str
Text(str) == [i \in 1..Len(str) |-> CodeUnit(SubSeq(str, i, i))]

IsDigit(c) == c \in CodeUnit("0")..CodeUnit("9")

DigitVal(c) == c - CodeUnit("0")

IsHexDigit(c) ==
  \/ IsDigit(c)
  \/ c \in CodeUnit("a")..CodeUnit("f")
  \/ c \in CodeUnit("A")..CodeUnit("F")

HexVal(c) ==
  IF IsDigit(c) THEN DigitVal(c)
  ELSE IF c >= CodeUnit("a") THEN c - CodeUnit("a") + 10
  ELSE c - CodeUnit("A") + 10

\* String.prototype.slice(from, to) for 0 <= from <= to
Slice(s, from, to) ==
  LET hi == IF to > Len(s) THEN Len(s) ELSE to
  IN  IF from >= hi THEN <<>> ELSE SubSeq(s, from + 1, hi)

\* The WhiteSpace and LineTerminator code points: tab, line feed, vertical
\* tab, form feed, carriage return, space, no-break space, ogham space mark,
\* en quad to hair space, line separator, paragraph separator, narrow
\* no-break space, medium mathematical space, ideographic space and zero
\* width no-break space.
WhiteSpace ==
  (9..13) \cup {32, 160, 5760} \cup (8192..8202)
    \cup {8232, 8233, 8239, 8287, 12288, 65279}

\* the leading white space parseFloat and parseInt skip (StrWhiteSpace)
RECURSIVE SkipSpaces(_)
SkipSpaces(s) ==
  IF s # <<>> /\ Head(s) \in WhiteSpace THEN SkipSpaces(Tail(s)) ELSE s

\* the longest prefix of s made of decimal digits
RECURSIVE TakeDigits(_)
TakeDigits(s) ==
  IF s # <<>> /\ IsDigit(Head(s)) THEN <<Head(s)>> \o TakeDigits(Tail(s)) ELSE <<>>

\* the longest prefix of s made of hexadecimal digits
RECURSIVE TakeHex(_)
TakeHex(s) ==
  IF s # <<>> /\ IsHexDigit(Head(s)) THEN <<Head(s)>> \o TakeHex(Tail(s)) ELSE <<>>

\* the value of a decimal digit string, most significant digit first
RECURSIVE DecValue(_)
DecValue(s) ==
  IF s = <<>> THEN 0
  ELSE DecValue(SubSeq(s, 1, Len(s) - 1)) * 10 + DigitVal(s[Len(s)])

\* the value of a hexadecimal digit string, most significant digit first
RECURSIVE HexValue(_)
HexValue(s) ==
  IF s = <<>> THEN 0
  ELSE HexValue(SubSeq(s, 1, Len(s) - 1)) * 16 + HexVal(s[Len(s)])

\* s without its leading zeros
RECURSIVE StripZeros(_)
StripZeros(s) == IF s # <<>> /\ Head(s) = CodeUnit("0") THEN StripZeros(Tail(s)) ELSE s

\* an optional sign at the head of t: whether it is "-", and t without it
IsNegative(t) == t # <<>> /\ Head(t) = CodeUnit("-")

Unsigned(t) == IF t # <<>> /\ Head(t) \in {CodeUnit("-"), CodeUnit("+")} THEN Tail(t) ELSE t

ApplySign(neg, v) == IF neg THEN Neg(v) ELSE v

\* m * 10^e.  order is the decimal order of m * 10^e (10^(order-1) <= value <
\* 10^order): beyond the range of a double the value is Infinity or 0.
Scale10(m, e, order) ==
  IF m.n = 0 THEN m
  ELSE IF order > 309 THEN Infinity
  ELSE IF order < -324 THEN I(0)
  ELSE IF e >= 0 THEN Mul(m, I(Pow10(e)))
  ELSE Div(m, I(Pow10(-e)))

\* the fraction digits of t when it starts with ".", and t without them
FractionOf(t) ==
  IF t # <<>> /\ Head(t) = CodeUnit(".") THEN TakeDigits(Tail(t)) ELSE <<>>

AfterFraction(t, fp) ==
  IF t # <<>> /\ Head(t) = CodeUnit(".") THEN SubSeq(t, Len(fp) + 2, Len(t)) ELSE t

\* the value of the exponent digits ed (leading zeros stripped)
ExponentValue(neg, ed) ==
  (IF neg THEN -1 ELSE 1) * (IF Len(ed) > 4 THEN 10000 ELSE DecValue(ed))

\* ExponentPart at the head of t: e or E, optional sign, digits; 0 when t
\* does not start with one
ExponentOf(t) ==
  IF t # <<>> /\ Head(t) \in {CodeUnit("e"), CodeUnit("E")}
  THEN ExponentValue(IsNegative(Tail(t)),
                     StripZeros(TakeDigits(Unsigned(Tail(t)))))
  ELSE 0

\* integer digits ip, fraction digits fp, exponent ex: NaN when no digit
DecimalValue(ip, fp, ex) ==
  IF ip = <<>> /\ fp = <<>> THEN NaN
  ELSE Scale10(Q(DecValue(ip \o fp), Pow10(Len(fp))), ex,
               Len(StripZeros(ip \o fp)) - Len(fp) + ex)

DecimalFraction(ip, fp, t) == DecimalValue(ip, fp, ExponentOf(AfterFraction(t, fp)))

DecimalTail(ip, t) == DecimalFraction(ip, FractionOf(t), t)

\* StrUnsignedDecimalLiteral: Infinity, or digits with an optional fraction
\* (or a fraction alone), with an optional exponent
UnsignedLiteral(t) ==
  IF Len(t) >= 8 /\ SubSeq(t, 1, 8) = Text("Infinity")
  THEN Infinity
  ELSE DecimalTail(TakeDigits(t), SubSeq(t, Len(TakeDigits(t)) + 1, Len(t)))

SignedLiteral(t) == ApplySign(IsNegative(t), UnsignedLiteral(Unsigned(t)))

\* parseFloat(text): leading white space skipped, then the longest prefix
\* that is a StrDecimalLiteral: optional sign, then Infinity, or digits with
\* an optional fraction (or a fraction alone), with an optional exponent
\* e/E, optional sign, digits.  NaN when there is no such prefix.
ParseFloat(text) == SignedLiteral(SkipSpaces(text))

\* t without a leading 0x or 0X
StripHexPrefix(t) ==
  IF Len(t) >= 2 /\ t[1] = CodeUnit("0") /\ t[2] \in {CodeUnit("x"), CodeUnit("X")}
  THEN SubSeq(t, 3, Len(t)) ELSE t

HexNumber(neg, hp) ==
  IF hp = <<>> THEN NaN ELSE ApplySign(neg, I(HexValue(hp)))

SignedHex(t) == HexNumber(IsNegative(t), TakeHex(StripHexPrefix(Unsigned(t))))

\* parseInt(text, 16): leading white space skipped, optional sign, an
\* optional 0x or 0X, then the leading hex digits; NaN when there is none
ParseInt16(text) == SignedHex(SkipSpaces(text))

\* the three channels the export reads from a colour string
\* (parseInt(color.slice(1,3),16), slice(3,5), slice(5,7))
Channels(color) ==
  <<ParseInt16(Slice(color, 1, 3)),
    ParseInt16(Slice(color, 3, 5)),
    ParseInt16(Slice(color, 5, 7))>>

-----------------------------------------------------------------------------
(* App: derived data (useMemo bodies) *)

\* const surfaces = useMemo(...): the three SurfaceData records
ComputeSurfaces(d, c) ==
  << [id |-> "bottom",
      label |-> "Superficie Inferiore (Base)",
      area |-> Mul(d.length, d.width),
      color |-> c.bottom,
      dimensions |-> ToFixed(d.length, 2) \o " x " \o ToFixed(d.width, 2) \o " m"],
     [id |-> "sides_long",
      label |-> "Pareti Laterali Lunghe (x2)",
      area |-> Mul(d.length, d.depth),
      color |-> c.sides_long,
      dimensions |-> ToFixed(d.length, 2) \o " x " \o ToFixed(d.depth, 2) \o " m"],
     [id |-> "sides_short",
      label |-> "Pareti Laterali Corte (x2)",
      area |-> Mul(d.width, d.depth),
      color |-> c.sides_short,
      dimensions |-> ToFixed(d.width, 2) \o " x " \o ToFixed(d.depth, 2) \o " m"] >>

\* Faulty variant of ReduceArea: the base is counted twice, like the walls.
RECURSIVE ReduceAreaAllTwice(_, _)
ReduceAreaAllTwice(ss, acc) ==
  IF ss = <<>> THEN acc
  ELSE ReduceAreaAllTwice(Tail(ss), Add(acc, Mul(Head(ss).area, I(2))))

\* surfaces.reduce((acc, s) => s.id === 'bottom' ? acc + s.area : acc + s.area * 2, 0)
RECURSIVE ReduceArea(_, _)
ReduceArea(ss, acc) ==
  IF ss = <<>> THEN acc
  ELSE ReduceArea(Tail(ss),
                  IF Head(ss).id = "bottom"
                  THEN Add(acc, Head(ss).area)
                  ELSE Add(acc, Mul(Head(ss).area, I(2))))

\* Faulty variant of ComputeTotalArea: every surface is counted once.
ComputeTotalAreaOnce(ss) ==
  IF ss = <<>> THEN I(0)
  ELSE Add(Add(ss[1].area, ss[2].area), ss[3].area)

ComputeTotalArea(ss) == ReduceArea(ss, I(0))

\* Faulty variant of ComputeSfidoData: the short strips are counted once, not twice.
ComputeSfidoDataOneShort(d) ==
  LET sfidoLunghe == Mul(Mul(d.length, d.sfido), I(2))
      sfidoCorte  == Mul(d.width, d.sfido)
  IN  [sfidoLunghe |-> sfidoLunghe,
       sfidoCorte  |-> sfidoCorte,
       totale      |-> Add(sfidoLunghe, sfidoCorte),
       sfido       |-> d.sfido]

\* const sfidoData = useMemo(...)
ComputeSfidoData(d) ==
  LET sfidoLunghe == Mul(Mul(d.length, d.sfido), I(2))
      sfidoCorte  == Mul(Mul(d.width, d.sfido), I(2))
  IN  [sfidoLunghe |-> sfidoLunghe,
       sfidoCorte  |-> sfidoCorte,
       totale      |-> Add(sfidoLunghe, sfidoCorte),
       sfido       |-> d.sfido]

\* Faulty variant of ComputeTotalAreaConSfido: only the long strips are added.
ComputeTotalAreaLongStripsOnly(t, sf) == Add(t, sf.sfidoLunghe)

\* const totalAreaConSfido = useMemo(() => totalArea + sfidoData.totale, ...)
ComputeTotalAreaConSfido(t, sf) == Add(t, sf.totale)

-----------------------------------------------------------------------------
(* The doubles the code holds for the values derived from the dimensions d, *)
(* each computed by the operations of the code's expression, in its order.  *)
(* They decide where the exact value cannot: on a decimal tie of toFixed.   *)

\* const bottomArea = length * width (surfaces[0].area)
BottomAreaDouble(d) == DMul(DoubleOf(d.length), DoubleOf(d.width))

\* const sideLongArea = length * depth (surfaces[1].area)
SideLongAreaDouble(d) == DMul(DoubleOf(d.length), DoubleOf(d.depth))

\* const sideShortArea = width * depth (surfaces[2].area)
SideShortAreaDouble(d) == DMul(DoubleOf(d.width), DoubleOf(d.depth))

\* r.area * r.qty, item.area * item.qty
TimesQty(x, qty) == DMul(x, DInt(qty))

\* totalArea: ((0 + bottom) + sideLong * 2) + sideShort * 2, as reduce adds
TotalAreaDouble(d) ==
  DAdd(DAdd(DAdd(DInt(0), BottomAreaDouble(d)), TimesQty(SideLongAreaDouble(d), 2)),
       TimesQty(SideShortAreaDouble(d), 2))

\* const sfidoLunghe = length * sfido * 2
SfidoLungheDouble(d) == DMul(DMul(DoubleOf(d.length), DoubleOf(d.sfido)), DInt(2))

\* const sfidoCorte = width * sfido * 2
SfidoCorteDouble(d) == DMul(DMul(DoubleOf(d.width), DoubleOf(d.sfido)), DInt(2))

\* const totale = sfidoLunghe + sfidoCorte
SfidoTotaleDouble(d) == DAdd(SfidoLungheDouble(d), SfidoCorteDouble(d))

\* totalArea + sfidoData.totale
TotalAreaConSfidoDouble(d) == DAdd(TotalAreaDouble(d), SfidoTotaleDouble(d))

\* length*width*depth
VolumeDouble(d) == DMul(DMul(DoubleOf(d.length), DoubleOf(d.width)), DoubleOf(d.depth))

\* the value of reading a property an object does not have
Undefined == [undefined |-> TRUE]

IsUndefined(x) == "undefined" \in DOMAIN x

\* s[field]
Property(s, field) == IF field \in DOMAIN s THEN s[field] ELSE Undefined

\* ExcavationModel: surfaces.find(s => s.id === id), undefined when no
\* record has the id
RECURSIVE Find(_, _)
Find(ss, id) ==
  IF ss = <<>> THEN Undefined
  ELSE IF Head(ss).id = id THEN Head(ss) ELSE Find(Tail(ss), id)

\* Face data extraction: const bottom, sideLong, sideShort
FaceData(ss) ==
  [bottom    |-> Find(ss, "bottom"),
   sideLong  |-> Find(ss, "sides_long"),
   sideShort |-> Find(ss, "sides_short")]

\* a value used as an operand of + or *: undefined converts to NaN
ToNumber(x) == IF IsUndefined(x) THEN NaN ELSE x

\* Sidebar: surfaces.reduce((acc, s) => s.id === 'bottom'
\*   ? acc + s.areaConSfido : acc + (s.areaConSfido * 2), 0)
RECURSIVE ReduceAreaConSfido(_, _)
ReduceAreaConSfido(ss, acc) ==
  IF ss = <<>> THEN acc
  ELSE LET s == Head(ss)
           a == ToNumber(Property(s, "areaConSfido"))
       IN  ReduceAreaConSfido(Tail(ss),
             IF s.id = "bottom" THEN Add(acc, a) ELSE Add(acc, Mul(a, I(2))))

SidebarTotalAreaConSfido(ss) == ReduceAreaConSfido(ss, I(0))

\* The dependency lists.  Each says whether React recomputes the cell in a
\* render, given which of the cell's inputs were replaced since the last one.
\* Faulty variant of SurfacesDeps: colors left out of the list.
SurfacesDepsDimsOnly(dimsNew, colorsNew) == dimsNew

SurfacesDeps(dimsNew, colorsNew) == dimsNew \/ colorsNew

TotalAreaDeps(surfacesNew) == surfacesNew

SfidoDataDeps(dimsNew) == dimsNew

TotalAreaConSfidoDeps(totalAreaNew, sfidoDataNew) == totalAreaNew \/ sfidoDataNew

\* Faulty variant of HandleExportPDFDeps: dimensions and sfidoData left out of the list.
HandleExportPDFDepsShort(dimsNew, colorsNew, totalAreaNew, sfidoDataNew, conSfidoNew) ==
  colorsNew \/ totalAreaNew \/ conSfidoNew

HandleExportPDFDeps(dimsNew, colorsNew, totalAreaNew, sfidoDataNew, conSfidoNew) ==
  dimsNew \/ colorsNew \/ totalAreaNew \/ sfidoDataNew \/ conSfidoNew

\* One render of App after a state update: d and c are the new dimensions and
\* colors; dimsNew / colorsNew say whether the update replaced the object.
\* Arrays and objects built by a recomputed cell are new references; numbers
\* are compared by value (Object.is).
Render(d, c, dimsNew, colorsNew) ==
  LET sNew  == SurfacesDeps(dimsNew, colorsNew)
      s     == IF sNew THEN ComputeSurfaces(d, c) ELSE surfaces
      t     == IF TotalAreaDeps(sNew) THEN ComputeTotalArea(s) ELSE totalArea
      tNew  == t # totalArea
      sfNew == SfidoDataDeps(dimsNew)
      sf    == IF sfNew THEN ComputeSfidoData(d) ELSE sfidoData
      tc    == IF TotalAreaConSfidoDeps(tNew, sfNew)
               THEN ComputeTotalAreaConSfido(t, sf) ELSE totalAreaConSfido
      tcNew == tc # totalAreaConSfido
      cb    == IF HandleExportPDFDeps(dimsNew, colorsNew, tNew, sfNew, tcNew)
               THEN [dimensions |-> d, colors |-> c, totalArea |-> t,
                     sfidoData |-> sf, totalAreaConSfido |-> tc]
               ELSE handleExportPDF
  IN  [surfaces |-> s, totalArea |-> t, sfidoData |-> sf,
       totalAreaConSfido |-> tc, handleExportPDF |-> cb]

-----------------------------------------------------------------------------
(* Initial state: the first render of App *)

InitDimensions == [length |-> I(0), width |-> I(0), depth |-> I(0), sfido |-> I(0)]

InitColors ==
  [bottom      |-> Text("#3b82f6"),
   sides_long  |-> Text("#ef4444"),
   sides_short |-> Text("#10b981"),
   sfido       |-> Text("#f59e0b")]

\* <group ref={...} position={[x, y, z]}>: the position prop of the five
\* animated groups of ExcavationModel
PositionProps(d) ==
  [bottom     |-> << I(0), I(0), I(0) >>,
   wallLong1  |-> << I(0), Div(d.depth, I(2)), Div(Neg(d.width), I(2)) >>,
   wallLong2  |-> << I(0), Div(d.depth, I(2)), Div(d.width, I(2)) >>,
   wallShort1 |-> << Div(Neg(d.length), I(2)), Div(d.depth, I(2)), I(0) >>,
   wallShort2 |-> << Div(d.length, I(2)), Div(d.depth, I(2)), I(0) >>]

\* the coordinate useFrame animates: position.y of the base, position.z of
\* the long walls, position.x of the short walls
AnimatedAxis ==
  [bottom |-> 2, wallLong1 |-> 3, wallLong2 |-> 3, wallShort1 |-> 1, wallShort2 |-> 1]

\* the animated coordinates as the position props give them
GroupPositions(d) ==
  [g \in DOMAIN AnimatedAxis |-> PositionProps(d)[g][AnimatedAxis[g]]]

\* a render with new dimensions: the renderer sets again the position of a
\* group whose position prop has changed, and leaves the others as they are
ApplyPositionProps(pos, old, new) ==
  [g \in DOMAIN AnimatedAxis |->
     IF PositionProps(new)[g] # PositionProps(old)[g]
     THEN PositionProps(new)[g][AnimatedAxis[g]]
     ELSE pos[g]]

\* 1970-01-01 00:00 UTC, read in UTC
Epoch == [time |-> 0, offset |-> 0]

\* no run of handleExportPDF is under way
NoPdf ==
  [calls |-> <<>>, pages |-> 0, saved |-> 0, failed |-> FALSE,
   suspended |-> FALSE, now |-> Epoch]

\* no run of handleExportPDF has returned yet
NoRun ==
  [ran |-> FALSE, calls |-> <<>>, failed |-> FALSE, now |-> Epoch,
   dimensions |-> InitDimensions, colors |-> InitColors, isExploded |-> FALSE]

Init ==
  /\ dimensions = InitDimensions
  /\ colors = InitColors
  /\ isExploded = FALSE
  /\ surfaces = ComputeSurfaces(InitDimensions, InitColors)
  /\ totalArea = ComputeTotalArea(ComputeSurfaces(InitDimensions, InitColors))
  /\ sfidoData = ComputeSfidoData(InitDimensions)
  /\ totalAreaConSfido =
       ComputeTotalAreaConSfido(
         ComputeTotalArea(ComputeSurfaces(InitDimensions, InitColors)),
         ComputeSfidoData(InitDimensions))
  /\ handleExportPDF =
       [dimensions |-> InitDimensions, colors |-> InitColors,
        totalArea |-> ComputeTotalArea(ComputeSurfaces(InitDimensions, InitColors)),
        sfidoData |-> ComputeSfidoData(InitDimensions),
        totalAreaConSfido |->
          ComputeTotalAreaConSfido(
            ComputeTotalArea(ComputeSurfaces(InitDimensions, InitColors)),
            ComputeSfidoData(InitDimensions))]
  /\ pdf = NoPdf
  /\ previous = NoRun
  /\ isoCalls = <<>>
  /\ position = GroupPositions(InitDimensions)
  /\ frames = 0

-----------------------------------------------------------------------------
(* handleExportPDF: the calls it makes on the jsPDF document, in order.     *)
(* A call is [op, site, args]: op is the jsPDF method, site names the part  *)
(* of the handler that makes the call, args are the arguments.  Literal     *)
(* texts are written in ASCII (m2 for the square-metre sign, x for the      *)
(* multiplication sign).                                                    *)

Call(op, site, args) == [op |-> op, site |-> site, args |-> args]

RGB(r, g, b) == <<I(r), I(g), I(b)>>

\* new jsPDF('p', 'mm', 'a4'): an A4 portrait page measured in millimetres
PageWidth == 210

PageHeight == 297

Margin == 12

DrawAreaHeight == 160

\* const now = new Date(): the clock's time in minutes since 1970-01-01
\* 00:00 UTC, and the offset of the local time zone from UTC in minutes
MinutesPerDay == 1440

DaysPerEra == 146097

\* 0000-03-01, the first day of a 400-year era, counted from 1970-01-01
EraStart == -719468

\* the date of a day counted from 1970-01-01 in the Gregorian calendar,
\* years of 365 days, 366 every fourth but not every hundredth, and every
\* four hundredth: by the day of the 400-year era, the year of the era and
\* the day of the year, the year beginning with March
YearOfEra(doe) ==
  (doe - doe \div 1460 + doe \div 36524 - doe \div 146096) \div 365

DayOfYear(doe, yoe) == doe - (365 * yoe + yoe \div 4 - yoe \div 100)

MonthFromMarch(doy) == (5 * doy + 2) \div 153

MonthOf(mp) == IF mp < 10 THEN mp + 3 ELSE mp - 9

DateInMonth(era, yoe, doy, mp) ==
  [year  |-> yoe + era * 400 + (IF MonthOf(mp) <= 2 THEN 1 ELSE 0),
   month |-> MonthOf(mp),
   day   |-> doy - (153 * mp + 2) \div 5 + 1]

DateInYear(era, yoe, doy) == DateInMonth(era, yoe, doy, MonthFromMarch(doy))

DateInEra(era, doe) ==
  DateInYear(era, YearOfEra(doe), DayOfYear(doe, YearOfEra(doe)))

DateFromDay(day) ==
  DateInEra((day - EraStart) \div DaysPerEra, (day - EraStart) % DaysPerEra)

\* the date in UTC and the date in the local time zone
UtcDate(now) == DateFromDay(now.time \div MinutesPerDay)

LocalDate(now) == DateFromDay((now.time + now.offset) \div MinutesPerDay)

\* now.toLocaleDateString('it-IT'): the local date as day/month/year, day and
\* month with two digits (the pattern dd/MM/y of the runtime's locale data)
LocaleDateText(date) ==
  PadZeros(ToString(date.day), 2) \o "/" \o PadZeros(ToString(date.month), 2)
    \o "/" \o ToString(date.year)

NowLocale(now) == LocaleDateText(LocalDate(now))

\* now.toISOString().slice(0,10): the UTC date as YYYY-MM-DD (years 0 to 9999)
IsoDateText(date) ==
  PadZeros(ToString(date.year), 4) \o "-" \o PadZeros(ToString(date.month), 2)
    \o "-" \o PadZeros(ToString(date.day), 2)

NowIso(now) == IsoDateText(UtcDate(now))

\* a typed value x as a number of the layout
Num(x, doubles) == IF doubles THEN DoubleOf(x) ELSE x

\* (sfido * 2) + depth + side + depth + (sfido * 2)
LayoutExtent(sfido, depth, side) ==
  Plus(Plus(Plus(Plus(Times(sfido, LitInt(sfido, 2)), depth), side), depth),
       Times(sfido, LitInt(sfido, 2)))

\* the extent of the layout along side: its exact value or, with doubles,
\* the double the code computes
Extent(d, side, doubles) ==
  LayoutExtent(Num(d.sfido, doubles), Num(d.depth, doubles), Num(side, doubles))

ExtentStrays(d, side) == Strays(Extent(d, side, TRUE), Extent(d, side, FALSE))

\* Whether the terms of totalLayoutWidth or of totalLayoutHeight cancel (a
\* negative length or width against the depth and the overlap).  The code
\* divides by what the additions left of the sum, and every number of the
\* layout follows from the quotient: the layout then is computed in doubles,
\* operation by operation.  Else the numbers of the layout are the exact
\* values.
Cancels(d) == ExtentStrays(d, d.length) \/ ExtentStrays(d, d.width)

\* const totalLayoutWidth = (sfido * 2) + depth + length + depth + (sfido * 2)
TotalLayoutWidth(d) ==
  IF Cancels(d) THEN Extent(d, d.length, TRUE) ELSE Extent(d, d.length, FALSE)

\* const totalLayoutHeight = (sfido * 2) + depth + width + depth + (sfido * 2)
TotalLayoutHeight(d) ==
  IF Cancels(d) THEN Extent(d, d.width, TRUE) ELSE Extent(d, d.width, FALSE)

DrawAreaWidth == I(PageWidth - Margin * 2)

\* const scaleX = drawAreaWidth / totalLayoutWidth
ScaleX(totalLayoutWidth) ==
  Over(Lit(totalLayoutWidth, DrawAreaWidth), totalLayoutWidth)

\* const scaleY = drawAreaHeight / totalLayoutHeight
ScaleY(totalLayoutHeight) ==
  Over(LitInt(totalLayoutHeight, DrawAreaHeight), totalLayoutHeight)

\* const scale = Math.min(scaleX, scaleY) * 0.85
ScaleOf(totalLayoutWidth, totalLayoutHeight) ==
  Times(Least(ScaleX(totalLayoutWidth), ScaleY(totalLayoutHeight)),
        Lit(totalLayoutWidth, Q(85, 100)))

\* the scale in exact values or in doubles
ScaleIn(d, doubles) ==
  ScaleOf(Extent(d, d.length, doubles), Extent(d, d.width, doubles))

Scale(d) == IF Cancels(d) THEN ScaleIn(d, TRUE) ELSE ScaleIn(d, FALSE)

\* the double of sSfido = sfido * scale
SSfidoDouble(d) == DMul(DoubleOf(d.sfido), ScaleIn(d, TRUE))

\* a typed value times the scale
Scaled(x, scale) == Times(Lit(scale, x), scale)

\* const sLength = length * scale, and so on
SLength(d, scale) == Scaled(d.length, scale)

SWidth(d, scale) == Scaled(d.width, scale)

\* Faulty variant of SDepth: the depth is scaled by the horizontal fit alone.
SDepthByScaleX(d, scale) ==
  Scaled(d.depth, Times(ScaleX(Extent(d, d.length, IsDouble(scale))),
                        Lit(scale, Q(85, 100))))

SDepth(d, scale) == Scaled(d.depth, scale)

SSfido(d, scale) == Scaled(d.sfido, scale)

CenterX == Div(I(PageWidth), I(2))

\* yPos = 25; centerY = yPos + drawAreaHeight / 2
CenterY == Add(I(25), Div(I(DrawAreaHeight), I(2)))

\* const baseX = centerX - sLength / 2
BaseX(d, scale) ==
  Minus(Lit(scale, CenterX), HalfOf(SLength(d, scale)))

\* const baseY = centerY - sWidth / 2
BaseY(d, scale) ==
  Minus(Lit(scale, CenterY), HalfOf(SWidth(d, scale)))

\* const sfidoColor = colors.sfido || '#f59e0b'
SfidoColor(c) ==
  IF c.sfido = <<>> THEN Text("#f59e0b") ELSE c.sfido

\* const fontSize = Math.min(9, Math.max(5, Math.min(w, h) / 5))
FontSize(w, h) ==
  Least(LitInt(w, 9), Greatest(LitInt(w, 5), Over(Least(w, h), LitInt(w, 5))))

\* x + w/2 and the like
Middle(x, w) == Plus(x, HalfOf(w))

\* drawSurface(x, y, w, h, color, label, area)
DrawSurface(site, x, y, w, h, color, label, area, areaDouble) ==
  LET fontSize == FontSize(w, h)
  IN  << Call("setFillColor", site, Channels(color)),
         Call("rect", site, <<x, y, w, h, "F">>),
         Call("setDrawColor", site, RGB(255, 255, 255)),
         Call("setLineWidth", site, <<Q(4, 10)>>),
         Call("rect", site, <<x, y, w, h, "S">>),
         Call("setTextColor", site, RGB(255, 255, 255)),
         Call("setFont", site, <<"helvetica", "bold">>),
         Call("setFontSize", site, <<fontSize>>),
         Call("text", site,
              <<label, Middle(x, w), Minus(Middle(y, h), LitInt(y, 2)), "center">>),
         Call("setFontSize", site, <<Times(fontSize, Lit(w, Q(12, 10)))>>),
         Call("text", site,
              <<ToFixedOf(area, areaDouble, 1) \o " m2", Middle(x, w),
                Plus(Middle(y, h), LitInt(y, 4)), "center">>) >>

\* Titolo compatto (page 1)
Title1Calls(now) ==
  << Call("setTextColor", "title1", RGB(30, 41, 59)),
     Call("setFontSize", "title1", <<I(14)>>),
     Call("setFont", "title1", <<"helvetica", "bold">>),
     Call("text", "title1",
          <<"GeoViz - Vista Sviluppata TNT", I(Margin), I(Margin + 5), "left">>),
     Call("setFontSize", "title1", <<I(8)>>),
     Call("setFont", "title1", <<"helvetica", "normal">>),
     Call("setTextColor", "title1", RGB(100, 116, 139)),
     Call("text", "title1",
          <<NowLocale(now), I(PageWidth - Margin - 20), I(Margin + 5), "left">>) >>

\* Disegna le superfici: the five drawSurface calls, the base at (bx, by),
\* sl by sw, the walls sd deep
FaceSurfaces(d, c, bx, by, sl, sw, sd) ==
  LET bottomArea    == Mul(d.length, d.width)
      sideLongArea  == Mul(d.length, d.depth)
      sideShortArea == Mul(d.width, d.depth)
  IN  DrawSurface("faceBase", bx, by, sl, sw, c.bottom, "BASE",
                  bottomArea, BottomAreaDouble(d))
      \o DrawSurface("faceLong1", bx, Minus(by, sd), sl, sd, c.sides_long,
                     "PARETE LUNGA", sideLongArea, SideLongAreaDouble(d))
      \o DrawSurface("faceLong2", bx, Plus(by, sw), sl, sd, c.sides_long,
                     "PARETE LUNGA", sideLongArea, SideLongAreaDouble(d))
      \o DrawSurface("faceShort1", Minus(bx, sd), by, sd, sw, c.sides_short,
                     "P.CORTA", sideShortArea, SideShortAreaDouble(d))
      \o DrawSurface("faceShort2", Plus(bx, sl), by, sd, sw, c.sides_short,
                     "P.CORTA", sideShortArea, SideShortAreaDouble(d))

\* the outline colour of the page-1 strips: setDrawColor(sfR - 40, sfG - 40, sfB - 40)
StripDrawColor(ch) == <<Sub(ch[1], I(40)), Sub(ch[2], I(40)), Sub(ch[3], I(40))>>

\* Faulty variant of StripsDrawn: no visibility threshold.
StripsDrawnAnyWidth(d, ss, ssDouble) == Gt(d.sfido, I(0))

\* if (sfido > 0 && sSfido > 2); ssDouble is the double of sSfido where ss
\* is its exact value
StripsDrawn(d, ss, ssDouble) == Gt(d.sfido, I(0)) /\ GtOf(ss, ssDouble, 2)

\* the four strips, ss wide, outside the walls
StripRects(ch, bx, by, sl, sw, sd, ss) ==
  << Call("setFillColor", "strip", ch),
     Call("setDrawColor", "strip", StripDrawColor(ch)),
     Call("setLineWidth", "strip", <<Q(3, 10)>>),
     Call("rect", "strip", <<bx, Minus(Minus(by, sd), ss), sl, ss, "FD">>),
     Call("rect", "strip", <<bx, Plus(Plus(by, sw), sd), sl, ss, "FD">>),
     Call("rect", "strip", <<Minus(Minus(bx, sd), ss), by, ss, sw, "FD">>),
     Call("rect", "strip", <<Plus(Plus(bx, sl), sd), by, ss, sw, "FD">>),
     Call("setTextColor", "strip", RGB(80, 50, 0)),
     Call("setFontSize", "strip", <<I(6)>>),
     Call("setFont", "strip", <<"helvetica", "bold">>) >>

\* the labels of the two strips along the long walls
StripLabels(bx, by, sl, sw, sd, ss) ==
  << Call("text", "stripLabel",
          <<"SFIDO", Middle(bx, sl),
            Minus(Minus(by, sd), HalfOf(ss)), "center">>),
     Call("text", "stripLabel",
          <<"SFIDO", Middle(bx, sl),
            Plus(Plus(Plus(Plus(by, sw), sd), HalfOf(ss)), LitInt(ss, 1)),
            "center">>) >>

\* the block of if (sfido > 0 && sSfido > 2), the labels if (sSfido > 6)
StripBlock(ch, bx, by, sl, sw, sd, ss, ssDouble) ==
  StripRects(ch, bx, by, sl, sw, sd, ss)
    \o (IF GtOf(ss, ssDouble, 6) THEN StripLabels(bx, by, sl, sw, sd, ss) ELSE <<>>)

\* STRISCE SFIDO (page 1)
StripCalls(d, c, bx, by, sl, sw, sd, ss, ssDouble) ==
  IF ~StripsDrawn(d, ss, ssDouble) THEN <<>>
  ELSE StripBlock(Channels(SfidoColor(c)), bx, by, sl, sw, sd, ss, ssDouble)

\* Linee piegatura: the four edges of the base, dashed
FoldLines(bx, by, sl, sw) ==
  << Call("setDrawColor", "fold", RGB(100, 116, 139)),
     Call("setLineWidth", "fold", <<Q(3, 10)>>),
     Call("setLineDashPattern", "fold", <<<<2, 2>>, 0>>),
     Call("line", "fold", <<bx, by, Plus(bx, sl), by>>),
     Call("line", "fold", <<bx, Plus(by, sw), Plus(bx, sl), Plus(by, sw)>>),
     Call("line", "fold", <<bx, by, bx, Plus(by, sw)>>),
     Call("line", "fold", <<Plus(bx, sl), by, Plus(bx, sl), Plus(by, sw)>>),
     Call("setLineDashPattern", "fold", <<<<>>, 0>>) >>

\* the unfolded layout with the base at (bx, by): faces, strips, fold lines
LayoutAt(d, c, bx, by, sl, sw, sd, ss, ssDouble) ==
  FaceSurfaces(d, c, bx, by, sl, sw, sd)
    \o StripCalls(d, c, bx, by, sl, sw, sd, ss, ssDouble)
    \o FoldLines(bx, by, sl, sw)

\* Faulty variant of LayoutScaled: the depth is scaled by the horizontal fit alone.
LayoutScaledDepthByScaleX(d, c, scale, ssDouble) ==
  LayoutAt(d, c, BaseX(d, scale), BaseY(d, scale), SLength(d, scale),
           SWidth(d, scale), SDepthByScaleX(d, scale), SSfido(d, scale), ssDouble)

\* the unfolded layout at the scale computed for it
LayoutScaled(d, c, scale, ssDouble) ==
  LayoutAt(d, c, BaseX(d, scale), BaseY(d, scale), SLength(d, scale),
           SWidth(d, scale), SDepth(d, scale), SSfido(d, scale), ssDouble)

\* the drawing of page 1, from the scale to the fold lines
LayoutCalls(cb) ==
  LayoutScaled(cb.dimensions, cb.colors, Scale(cb.dimensions),
               SSfidoDouble(cb.dimensions))

\* one row of the summary table (rows.forEach), drawn at height y
RowCalls(color, name, dims, area, areaDouble, qty, y) ==
  << Call("setFillColor", "table", Channels(color)),
     Call("rect", "table", <<I(Margin + 3), Sub(y, Q(25, 10)), I(8), I(4), "F">>),
     Call("setTextColor", "table", RGB(71, 85, 105)),
     Call("setFont", "table", <<"helvetica", "normal">>),
     Call("text", "table", <<name, I(Margin + 15), y, "left">>),
     Call("text", "table", <<dims, I(Margin + 55), y, "left">>),
     Call("text", "table",
          <<ToFixedOf(area, areaDouble, 1) \o " m2", I(Margin + 100), y, "left">>),
     Call("text", "table", <<"x" \o ToString(qty), I(Margin + 130), y, "left">>),
     Call("setFont", "table", <<"helvetica", "bold">>),
     Call("text", "table",
          <<ToFixedOf(Mul(area, I(qty)), TimesQty(areaDouble, qty), 1) \o " m2",
            I(Margin + 150), y, "left">>) >>

\* yPos = centerY + drawAreaHeight/2 + 10, where the summary table starts
TableTop == Add(Add(CenterY, Div(I(DrawAreaHeight), I(2))), I(10))

\* TABELLA RIEPILOGO: heading, header row, three rows, subtotal
TableCalls(cb) ==
  LET d  == cb.dimensions
      c  == cb.colors
      y0 == TableTop
      y1 == Add(y0, I(6))
      y2 == Add(y1, I(6))
      y3 == Add(y2, I(15))
      y4 == Add(y3, I(4))
  IN  << Call("setTextColor", "table", RGB(30, 41, 59)),
         Call("setFontSize", "table", <<I(11)>>),
         Call("setFont", "table", <<"helvetica", "bold">>),
         Call("text", "table", <<"Riepilogo Superfici", I(Margin), y0, "left">>),
         Call("setFillColor", "table", RGB(241, 245, 249)),
         Call("rect", "table",
              <<I(Margin), Sub(y1, I(3)), I(PageWidth - Margin * 2), I(6), "F">>),
         Call("setFontSize", "table", <<I(8)>>),
         Call("setTextColor", "table", RGB(71, 85, 105)),
         Call("text", "table", <<"Superficie", I(Margin + 15), y1, "left">>),
         Call("text", "table", <<"Dimensioni", I(Margin + 55), y1, "left">>),
         Call("text", "table", <<"Area", I(Margin + 100), y1, "left">>),
         Call("text", "table", <<"Qta", I(Margin + 130), y1, "left">>),
         Call("text", "table", <<"Totale", I(Margin + 150), y1, "left">>) >>
      \o RowCalls(c.bottom, "Base",
                  ToFixed(d.length, 1) \o "x" \o ToFixed(d.width, 1) \o "m",
                  Mul(d.length, d.width), BottomAreaDouble(d), 1, y2)
      \o RowCalls(c.sides_long, "Pareti Lunghe",
                  ToFixed(d.length, 1) \o "x" \o ToFixed(d.depth, 1) \o "m",
                  Mul(d.length, d.depth), SideLongAreaDouble(d), 2, Add(y2, I(5)))
      \o RowCalls(c.sides_short, "Pareti Corte",
                  ToFixed(d.width, 1) \o "x" \o ToFixed(d.depth, 1) \o "m",
                  Mul(d.width, d.depth), SideShortAreaDouble(d), 2, Add(y2, I(10)))
      \o << Call("setDrawColor", "subtotal", RGB(200, 200, 200)),
            Call("line", "subtotal", <<I(Margin), y3, I(PageWidth - Margin), y3>>),
            Call("setFont", "subtotal", <<"helvetica", "normal">>),
            Call("text", "subtotal", <<"Subtotale superfici:", I(Margin + 55), y4, "left">>),
            Call("setFont", "subtotal", <<"helvetica", "bold">>),
            Call("text", "subtotal",
                 <<ToFixedOf(cb.totalArea, TotalAreaDouble(d), 1) \o " m2",
                   I(Margin + 150), y4, "left">>) >>

\* yPos after the subtotal line
AfterSubtotal == Add(TableTop, I(6 + 6 + 15 + 4 + 8))

\* SFIDO detail block of page 1: if (sfido > 0)
SfidoBlockCalls(cb) ==
  LET d  == cb.dimensions
      sf == cb.sfidoData
      y  == AfterSubtotal
  IN  IF ~Gt(d.sfido, I(0)) THEN <<>>
      ELSE << Call("setFillColor", "sfidoBlock", RGB(254, 243, 199)),
              Call("rect", "sfidoBlock",
                   <<I(Margin), Sub(y, I(3)), I(PageWidth - Margin * 2), I(18), "F">>),
              Call("setTextColor", "sfidoBlock", RGB(146, 64, 14)),
              Call("setFont", "sfidoBlock", <<"helvetica", "bold">>),
              Call("setFontSize", "sfidoBlock", <<I(9)>>),
              Call("text", "sfidoBlock",
                   <<"SFIDO (" \o NumToString(d.sfido) \o "m sul bordo superiore)",
                     I(Margin + 5), Add(y, I(2)), "left">>),
              Call("setFont", "sfidoBlock", <<"helvetica", "normal">>),
              Call("setFontSize", "sfidoBlock", <<I(8)>>),
              Call("text", "sfidoBlock",
                   <<"Pareti lunghe: " \o ToFixed(d.length, 1) \o "m x "
                       \o NumToString(d.sfido) \o "m x 2 = "
                       \o ToFixedOf(sf.sfidoLunghe, SfidoLungheDouble(d), 1) \o " m2",
                     I(Margin + 5), Add(y, I(8)), "left">>),
              Call("text", "sfidoBlock",
                   <<"Pareti corte: " \o ToFixed(d.width, 1) \o "m x "
                       \o NumToString(d.sfido) \o "m x 2 = "
                       \o ToFixedOf(sf.sfidoCorte, SfidoCorteDouble(d), 1) \o " m2",
                     I(Margin + 5), Add(y, I(13)), "left">>),
              Call("setFont", "sfidoBlock", <<"helvetica", "bold">>),
              Call("text", "sfidoBlock",
                   <<"Totale sfido: "
                       \o ToFixedOf(sf.totale, SfidoTotaleDouble(d), 1) \o " m2",
                     I(Margin + 120), Add(y, I(10)), "left">>) >>

\* TOTALE FINALE box and footer of page 1
\* `Superfici: ${totalArea.toFixed(1)} m2 + Sfido: ${sfidoData.totale.toFixed(1)} m2`
TotalBreakdownText(cb) ==
  "Superfici: "
    \o ToFixedOf(cb.totalArea, TotalAreaDouble(cb.dimensions), 1) \o " m2 + Sfido: "
    \o ToFixedOf(cb.sfidoData.totale, SfidoTotaleDouble(cb.dimensions), 1) \o " m2"

TotalBoxCalls(cb) ==
  LET d == cb.dimensions
      y == IF Gt(d.sfido, I(0)) THEN Add(AfterSubtotal, I(22)) ELSE AfterSubtotal
  IN  << Call("setFillColor", "totalBox", RGB(30, 41, 59)),
         Call("roundedRect", "totalBox",
              <<I(Margin), y, I(PageWidth - Margin * 2), I(16), I(2), I(2), "F">>),
         Call("setTextColor", "totalBox", RGB(148, 163, 184)),
         Call("setFontSize", "totalBox", <<I(8)>>),
         Call("text", "totalBreakdown",
              <<TotalBreakdownText(cb), I(Margin + 5), Add(y, I(6)), "left">>),
         Call("setTextColor", "totalBox", RGB(255, 255, 255)),
         Call("setFont", "totalBox", <<"helvetica", "bold">>),
         Call("setFontSize", "totalBox", <<I(10)>>),
         Call("text", "totalBox", <<"TOTALE TNT:", I(Margin + 5), Add(y, I(12)), "left">>),
         Call("setFontSize", "totalBox", <<I(16)>>),
         Call("setTextColor", "totalBox", RGB(251, 191, 36)),
         Call("text", "totalBox",
              <<ToFixedOf(cb.totalAreaConSfido, TotalAreaConSfidoDouble(d), 1) \o " m2",
                I(Margin + 45),
                Add(y, I(12)), "left">>),
         Call("setTextColor", "footer1", RGB(148, 163, 184)),
         Call("setFontSize", "footer1", <<I(7)>>),
         Call("text", "footer1",
              <<"Pagina 1/2", Div(I(PageWidth), I(2)), I(PageHeight - 5), "center">>) >>

\* PAGINA 1: everything drawn before pdf.addPage()
Page1Calls(cb, now) ==
  Title1Calls(now) \o LayoutCalls(cb)
    \o TableCalls(cb) \o SfidoBlockCalls(cb) \o TotalBoxCalls(cb)

-----------------------------------------------------------------------------
(* Page 2: the isometric view.  cos30 = Math.cos(Math.PI / 6) is irrational: *)
(* a horizontal page coordinate is kept exactly as [c, k], standing for      *)
(* c + k * cos30.  sin30 = Math.sin(Math.PI / 6) is 1/2.                     *)

IsoScale == 16

IsoCenterX == Div(I(PageWidth), I(2))

IsoCenterY == 130

Sin30 == Q(1, 2)

\* Faulty variant of toIso: x - z and x + z change places.
toIsoSwapped(x, y, z) ==
  << [c |-> IsoCenterX, k |-> Add(x, z)],
     Add(Sub(I(IsoCenterY), y), Mul(Sub(x, z), Sin30)) >>

\* const toIso = (x, y, z) =>
\*   [isoCenterX + (x - z) * cos30, isoCenterY - y + (x + z) * sin30]
toIso(x, y, z) ==
  << [c |-> IsoCenterX, k |-> Sub(x, z)],
     Add(Sub(I(IsoCenterY), y), Mul(Add(x, z), Sin30)) >>

SL(d) == Mul(d.length, I(IsoScale))

SW(d) == Mul(d.width, I(IsoScale))

SD(d) == Mul(d.depth, I(IsoScale))

SSfidoIso(d) == Mul(d.sfido, I(IsoScale))

Half(a) == Div(a, I(2))

\* Vertici scavo: A..D at the base (y = 0), E..H at the rim (y = sD)
v(d) ==
  [A |-> toIso(Neg(Half(SL(d))), I(0), Neg(Half(SW(d)))),
   B |-> toIso(Half(SL(d)), I(0), Neg(Half(SW(d)))),
   C |-> toIso(Half(SL(d)), I(0), Half(SW(d))),
   D |-> toIso(Neg(Half(SL(d))), I(0), Half(SW(d))),
   E |-> toIso(Neg(Half(SL(d))), SD(d), Neg(Half(SW(d)))),
   F |-> toIso(Half(SL(d)), SD(d), Neg(Half(SW(d)))),
   G |-> toIso(Half(SL(d)), SD(d), Half(SW(d))),
   H |-> toIso(Neg(Half(SL(d))), SD(d), Half(SW(d)))]

\* Vertici sfido: the rim vertices moved outward by sSfidoIso
sfV(d) ==
  [E_out  |-> toIso(Neg(Half(SL(d))), SD(d), Sub(Neg(Half(SW(d))), SSfidoIso(d))),
   F_out  |-> toIso(Half(SL(d)), SD(d), Sub(Neg(Half(SW(d))), SSfidoIso(d))),
   G_out  |-> toIso(Half(SL(d)), SD(d), Add(Half(SW(d)), SSfidoIso(d))),
   H_out  |-> toIso(Neg(Half(SL(d))), SD(d), Add(Half(SW(d)), SSfidoIso(d))),
   E_side |-> toIso(Sub(Neg(Half(SL(d))), SSfidoIso(d)), SD(d), Neg(Half(SW(d)))),
   F_side |-> toIso(Add(Half(SL(d)), SSfidoIso(d)), SD(d), Neg(Half(SW(d)))),
   G_side |-> toIso(Add(Half(SL(d)), SSfidoIso(d)), SD(d), Half(SW(d))),
   H_side |-> toIso(Sub(Neg(Half(SL(d))), SSfidoIso(d)), SD(d), Half(SW(d)))]

\* const fillPoly = (pts, r, g, b) => { setFillColor; moveTo(pts[0]);
\*   pts.forEach(lineTo); fill() }
FillPoly(site, pts, rgb) ==
  << Call("setFillColor", site, rgb),
     Call("moveTo", site, pts[1]) >>
  \o [i \in 1..Len(pts) |-> Call("lineTo", site, pts[i])]
  \o << Call("fill", site, <<>>) >>

\* Math.min(255, ch + delta) on each channel
Lighten(ch, delta) ==
  <<MathMin(I(255), Add(ch[1], I(delta))),
    MathMin(I(255), Add(ch[2], I(delta))),
    MathMin(I(255), Add(ch[3], I(delta)))>>

\* Math.max(0, ch - delta) on each channel
Darken(ch, delta) ==
  <<MathMax(I(0), Sub(ch[1], I(delta))),
    MathMax(I(0), Sub(ch[2], I(delta))),
    MathMax(I(0), Sub(ch[3], I(delta)))>>

Line(site, p, q) == Call("line", site, <<p[1], p[2], q[1], q[2]>>)

\* header of page 2
Title2Calls(now) ==
  << Call("setTextColor", "title2", RGB(30, 41, 59)),
     Call("setFontSize", "title2", <<I(14)>>),
     Call("setFont", "title2", <<"helvetica", "bold">>),
     Call("text", "title2",
          <<"GeoViz - Vista 3D Isometrica", I(Margin), I(Margin + 5), "left">>),
     Call("setFontSize", "title2", <<I(8)>>),
     Call("setFont", "title2", <<"helvetica", "normal">>),
     Call("setTextColor", "title2", RGB(100, 116, 139)),
     Call("text", "title2",
          <<NowLocale(now), I(PageWidth - Margin - 20), I(Margin + 5), "left">>) >>

\* the five polygons of the vertices p, in the colours of the long walls, of
\* the short walls and of the base: back, left, base, right (lightened),
\* front (lightened)
IsoFacePolys(p, sLc, sSc, bc) ==
  FillPoly("isoBack", <<p.A, p.B, p.F, p.E>>, sLc)
    \o FillPoly("isoLeft", <<p.A, p.D, p.H, p.E>>, sSc)
    \o FillPoly("isoBase", <<p.A, p.B, p.C, p.D>>, bc)
    \o FillPoly("isoRight", <<p.B, p.C, p.G, p.F>>, Lighten(sSc, 30))
    \o FillPoly("isoFront", <<p.D, p.C, p.G, p.H>>, Lighten(sLc, 20))

\* Faulty variant of IsoFaceCalls: the walls are sorted by the shape of the
\* box, the left wall going first when the box is longer than wide.
IsoFaceCallsSorted(cb) ==
  LET p   == v(cb.dimensions)
      sLc == Channels(cb.colors.sides_long)
      sSc == Channels(cb.colors.sides_short)
      bc  == Channels(cb.colors.bottom)
      bk  == FillPoly("isoBack", <<p.A, p.B, p.F, p.E>>, sLc)
      lf  == FillPoly("isoLeft", <<p.A, p.D, p.H, p.E>>, sSc)
  IN  (IF Gt(cb.dimensions.length, cb.dimensions.width) THEN lf \o bk ELSE bk \o lf)
      \o FillPoly("isoBase", <<p.A, p.B, p.C, p.D>>, bc)
      \o FillPoly("isoRight", <<p.B, p.C, p.G, p.F>>, Lighten(sSc, 30))
      \o FillPoly("isoFront", <<p.D, p.C, p.G, p.H>>, Lighten(sLc, 20))

\* Disegna pareti
IsoFaceCalls(cb) ==
  IsoFacePolys(v(cb.dimensions), Channels(cb.colors.sides_long),
               Channels(cb.colors.sides_short), Channels(cb.colors.bottom))

\* the four bands between the rim vertices of p and the outer vertices o, and
\* the outline of the outer vertices
IsoSfidoPolys(p, o, ch) ==
  FillPoly("isoSfidoBack", <<p.E, p.F, o.F_out, o.E_out>>, Darken(ch, 30))
    \o FillPoly("isoSfidoLeft", <<p.E, o.E_side, o.H_side, p.H>>, Darken(ch, 15))
    \o FillPoly("isoSfidoRight", <<p.F, p.G, o.G_side, o.F_side>>, Lighten(ch, 15))
    \o FillPoly("isoSfidoFront", <<p.H, o.H_out, o.G_out, p.G>>, ch)
    \o << Call("setDrawColor", "isoSfidoEdge", RGB(100, 70, 0)),
          Call("setLineWidth", "isoSfidoEdge", <<Q(3, 10)>>),
          Line("isoSfidoEdge", o.E_out, o.F_out),
          Line("isoSfidoEdge", o.F_side, o.G_side),
          Line("isoSfidoEdge", o.G_out, o.H_out),
          Line("isoSfidoEdge", o.H_side, o.E_side) >>

\* SFIDO come prolungamento orizzontale delle pareti: if (sfido > 0)
IsoSfidoCalls(cb) ==
  IF ~Gt(cb.dimensions.sfido, I(0)) THEN <<>>
  ELSE IsoSfidoPolys(v(cb.dimensions), sfV(cb.dimensions),
                     Channels(SfidoColor(cb.colors)))

\* the twelve edges of the vertices p: base and vertical edges solid, rim
\* edges dashed
IsoEdgeLines(p) ==
  << Call("setDrawColor", "isoEdge", RGB(40, 40, 40)),
     Call("setLineWidth", "isoEdge", <<Q(5, 10)>>),
     Line("isoEdgeBase", p.A, p.B), Line("isoEdgeBase", p.B, p.C),
     Line("isoEdgeBase", p.C, p.D), Line("isoEdgeBase", p.D, p.A),
     Line("isoEdgeVert", p.A, p.E), Line("isoEdgeVert", p.B, p.F),
     Line("isoEdgeVert", p.C, p.G), Line("isoEdgeVert", p.D, p.H),
     Call("setLineDashPattern", "isoEdge", <<<<2, 1>>, 0>>),
     Call("setDrawColor", "isoEdge", RGB(80, 80, 80)),
     Line("isoEdgeRim", p.E, p.F), Line("isoEdgeRim", p.F, p.G),
     Line("isoEdgeRim", p.G, p.H), Line("isoEdgeRim", p.H, p.E),
     Call("setLineDashPattern", "isoEdge", <<<<>>, 0>>) >>

\* Faulty variant of IsoEdgeCalls: the dash pattern is set before the vertical
\* edges and never reset.
IsoEdgeCallsDashedEarly(cb) ==
  LET p == v(cb.dimensions)
  IN  << Call("setDrawColor", "isoEdge", RGB(40, 40, 40)),
         Call("setLineWidth", "isoEdge", <<Q(5, 10)>>),
         Line("isoEdgeBase", p.A, p.B), Line("isoEdgeBase", p.B, p.C),
         Line("isoEdgeBase", p.C, p.D), Line("isoEdgeBase", p.D, p.A),
         Call("setLineDashPattern", "isoEdge", <<<<2, 1>>, 0>>),
         Line("isoEdgeVert", p.A, p.E), Line("isoEdgeVert", p.B, p.F),
         Line("isoEdgeVert", p.C, p.G), Line("isoEdgeVert", p.D, p.H),
         Call("setDrawColor", "isoEdge", RGB(80, 80, 80)),
         Line("isoEdgeRim", p.E, p.F), Line("isoEdgeRim", p.F, p.G),
         Line("isoEdgeRim", p.G, p.H), Line("isoEdgeRim", p.H, p.E) >>

\* Bordi scavo
IsoEdgeCalls(cb) == IsoEdgeLines(v(cb.dimensions))

\* one legend entry (legendData.forEach), drawn at height y
LegendItemCalls(site, color, name, area, areaDouble, qty, y) ==
  << Call("setFillColor", site, Channels(color)),
     Call("rect", site, <<I(Margin), Sub(y, Q(25, 10)), I(12), I(5), "F">>),
     Call("setTextColor", site, RGB(71, 85, 105)),
     Call("setFont", site, <<"helvetica", "normal">>),
     Call("setFontSize", site, <<I(9)>>),
     Call("text", site, <<name, I(Margin + 16), y, "left">>),
     Call("text", site,
          <<ToFixedOf(Mul(area, I(qty)), TimesQty(areaDouble, qty), 1) \o " m2",
            I(Margin + 70), y, "left">>) >>

\* Legenda: three entries, and a fourth for the sfido if (sfido > 0)
LegendCalls(cb) ==
  LET d == cb.dimensions
      c == cb.colors
  IN  << Call("setTextColor", "legend", RGB(30, 41, 59)),
         Call("setFontSize", "legend", <<I(10)>>),
         Call("setFont", "legend", <<"helvetica", "bold">>),
         Call("text", "legend", <<"Legenda Superfici", I(Margin), I(220), "left">>) >>
      \o LegendItemCalls("legend", c.bottom, "Base",
                         Mul(d.length, d.width), BottomAreaDouble(d), 1, I(228))
      \o LegendItemCalls("legend", c.sides_long, "Pareti Lunghe",
                         Mul(d.length, d.depth), SideLongAreaDouble(d), 2, I(235))
      \o LegendItemCalls("legend", c.sides_short, "Pareti Corte",
                         Mul(d.width, d.depth), SideShortAreaDouble(d), 2, I(242))
      \o (IF ~Gt(d.sfido, I(0)) THEN <<>>
          ELSE LegendItemCalls("legendSfido", SfidoColor(c), "Sfido (bordo sup.)",
                               cb.sfidoData.totale, SfidoTotaleDouble(d), 1, I(249)))

\* Dimensioni box and footer of page 2
SpecsCalls(cb) ==
  LET d == cb.dimensions
      y == IF Gt(d.sfido, I(0)) THEN I(228 + 28 + 5) ELSE I(228 + 21 + 5)
  IN  << Call("setFillColor", "specs", RGB(248, 250, 252)),
         Call("roundedRect", "specs",
              <<I(Margin), y, I(PageWidth - Margin * 2), I(20), I(2), I(2), "F">>),
         Call("setTextColor", "specs", RGB(71, 85, 105)),
         Call("setFontSize", "specs", <<I(9)>>),
         Call("setFont", "specs", <<"helvetica", "bold">>),
         Call("text", "specs", <<"Dimensioni Scavo:", I(Margin + 5), Add(y, I(7)), "left">>),
         Call("setFont", "specs", <<"helvetica", "normal">>),
         Call("text", "specs",
              <<ToFixed(d.length, 1) \o "m x " \o ToFixed(d.width, 1) \o "m x "
                  \o ToFixed(d.depth, 1) \o "m (LxWxD)",
                I(Margin + 45), Add(y, I(7)), "left">>),
         Call("text", "specs",
              <<"Volume: "
                  \o ToFixedOf(Mul(Mul(d.length, d.width), d.depth), VolumeDouble(d), 1)
                  \o " m3",
                I(Margin + 120), Add(y, I(7)), "left">>),
         Call("setFont", "specs", <<"helvetica", "bold">>),
         Call("setTextColor", "specs", RGB(79, 70, 229)),
         Call("text", "specs",
              <<"TOTALE TNT: "
                  \o ToFixedOf(cb.totalAreaConSfido, TotalAreaConSfidoDouble(d), 1)
                  \o " m2",
                I(Margin + 5), Add(y, I(14)), "left">>),
         Call("setTextColor", "footer2", RGB(148, 163, 184)),
         Call("setFontSize", "footer2", <<I(7)>>),
         Call("setFont", "footer2", <<"helvetica", "normal">>),
         Call("text", "footer2",
              <<"Pagina 2/2 - GeoViz Dynamic", Div(I(PageWidth), I(2)),
                I(PageHeight - 5), "center">>) >>

\* PAGINA 2: everything drawn between pdf.addPage() and pdf.save()
Page2Calls(cb, now) ==
  Title2Calls(now) \o IsoFaceCalls(cb) \o IsoSfidoCalls(cb) \o IsoEdgeCalls(cb)
    \o LegendCalls(cb) \o SpecsCalls(cb)

\* Faulty variant of ExportCalls: the exploded view gets no second page.
ExportCallsByView(cb, now) ==
  Page1Calls(cb, now)
    \o (IF isExploded THEN <<>>
        ELSE << Call("addPage", "addPage", <<>>) >> \o Page2Calls(cb, now))
    \o << Call("save", "save", <<"GeoViz_Scavo_" \o NowIso(now) \o ".pdf">>) >>

\* every call of one run of handleExportPDF in which no call throws
ExportCalls(cb, now) ==
  Page1Calls(cb, now)
    \o << Call("addPage", "addPage", <<>>) >>
    \o Page2Calls(cb, now)
    \o << Call("save", "save", <<"GeoViz_Scavo_" \o NowIso(now) \o ".pdf">>) >>

\* how many of the calls are calls of op
CountOp(calls, op) == Cardinality({i \in 1..Len(calls) : calls[i].op = op})

\* the arguments of a jsPDF call that are coordinates or lengths
CoordinateArgs(op) ==
  CASE op \in {"rect", "roundedRect", "line"} -> 1..4
    [] op = "text"                           -> 2..3
    [] op \in {"moveTo", "lineTo"}            -> 1..2
    [] OTHER                                 -> {}

\* x is NaN: an exact value, a part of an isometric c + k*cos30, or a double
IsNaNCoordinate(x) ==
  IF "n" \in DOMAIN x THEN IsNaN(x)
  ELSE IF "k" \in DOMAIN x THEN IsNaN(x.c) \/ IsNaN(x.k)
  ELSE x.c = "nan"

HasNaNCoordinate(call) ==
  \E j \in CoordinateArgs(call.op) : IsNaNCoordinate(call.args[j])

\* the index of the first call that is handed a NaN coordinate, or 0
RejectedAt(all) ==
  LET bad == {i \in 1..Len(all) : HasNaNCoordinate(all[i])}
  IN  IF bad = {} THEN 0 ELSE CHOOSE i \in bad : \A j \in bad : i <= j

\* Where a run of handleExportPDF may be ended by an exception of jsPDF
\* (0: nowhere).  jsPDF is a dependency whose sources are not part of the
\* repository: a build whose jsPDF checks its coordinates throws "Invalid
\* arguments" at the first call handed NaN, a build whose jsPDF does not
\* check them writes NaN into the page and goes on.  Both are outcomes.  A
\* call that is handed no NaN does not throw.
ThrowPoints(all) == {0, RejectedAt(all)}

\* Faulty variant of Awaits: the handler awaits once the title is written.
AwaitsAfterTitle == {"title1"}

\* the call sites after which handleExportPDF awaits: the handler is
\* declared async, and its body holds no await
Awaits == {}

\* the calls made up to the first await
UntilAwait(calls) ==
  LET at == {i \in 1..Len(calls) : calls[i].site \in Awaits}
  IN  IF at = {} THEN calls
      ELSE SubSeq(calls, 1, CHOOSE i \in at : \A j \in at : i <= j)

\* Faulty variant of RunExport: the file is written even when a call has thrown.
RunExportSaveAnyway(all, k, now) ==
  LET reached == IF k = 0 THEN all
                 ELSE SubSeq(all, 1, k - 1) \o << all[Len(all)] >>
      made    == UntilAwait(reached)
  IN  [calls     |-> made,
       pages     |-> 1 + CountOp(made, "addPage"),
       saved     |-> CountOp(made, "save"),
       failed    |-> k # 0 /\ made = reached,
       suspended |-> made # reached,
       now       |-> now]

\* The document of one run of handleExportPDF whose calls would be all, when
\* call k throws (0: no call throws).  The handler has no try/catch: call k
\* and the calls after it are not made.  new jsPDF() opens page 1; each
\* addPage adds a page; save writes the file.  now is the time the run has
\* read from the clock.  A run that reaches an await is suspended there.
RunExport(all, k, now) ==
  LET reached == IF k = 0 THEN all ELSE SubSeq(all, 1, k - 1)
      made    == UntilAwait(reached)
  IN  [calls     |-> made,
       pages     |-> 1 + CountOp(made, "addPage"),
       saved     |-> CountOp(made, "save"),
       failed    |-> k # 0 /\ made = reached,
       suspended |-> made # reached,
       now       |-> now]

\* the documents one run may end with
ExportOutcomes(all, now) == {RunExport(all, k, now) : k \in ThrowPoints(all)}

-----------------------------------------------------------------------------
(* Inputs *)

\* what the user types into the four number fields: <<key, text>>
DimInputs ==
  { <<"length", Text("4")>>, <<"length", <<>>>>, <<"length", Text("-1")>>,
    <<"length", Text("20")>>, <<"length", Text("2e1")>>,
    <<"width", Text("3")>>, <<"width", Text("abc")>>,
    <<"depth", Text("2.5")>>, <<"depth", Text("0")>>,
    <<"sfido", Text("0.1")>>, <<"sfido", Text("0.2")>>,
    <<"sfido", Text("0.5")>>, <<"sfido", Text(" ")>> }

\* the values the colour pickers (input type="color") hand to
\* handleColorChange: <<key, value>>, the value '#' and six lower-case hex
\* digits
ColorInputs ==
  { <<"bottom", Text("#000000")>>,
    <<"sides_long", Text("#ef4444")>>,
    <<"sides_short", Text("#ffffff")>>,
    <<"sfido", Text("#0ea5e9")>> }

\* what new Date() may read: 2026-01-15 12:00 UTC in Rome in winter; 23:30
\* UTC there, when the local date is the 16th; 2026-01-16 03:30 UTC in New
\* York, where it is still the 15th
Clocks ==
  { [time |-> 29475330, offset |-> 60],
    [time |-> 29475570, offset |-> -300] }

-----------------------------------------------------------------------------
(* Sidebar handlers and App actions.  Handlers run to completion, one at  *)
(* a time: while a run of handleExportPDF holds its document (pdf), another *)
(* handler runs only if that run is suspended at an await.                 *)

\* the event loop may start a handler
Idle == pdf = NoPdf \/ pdf.suspended

\* Faulty variant of DimValue: the parsed number is stored as it is.
DimValueParsed(value) == ParseFloat(value)

\* const num = parseFloat(value) || 0
DimValue(value) ==
  LET num == ParseFloat(value) IN IF Truthy(num) THEN num ELSE I(0)

\* Faulty variant of handleDimChange: an edit of the length or of the width
\* also sets the overlap back to 0.
handleDimChangeResetsSfido(key, value) ==
  LET e == [dimensions EXCEPT ![key] = DimValue(value)]
      d == IF key \in {"length", "width"} THEN [e EXCEPT !.sfido = I(0)] ELSE e
      r == Render(d, colors, TRUE, FALSE)
  IN  /\ Idle
      /\ dimensions' = d
      /\ surfaces' = r.surfaces
      /\ totalArea' = r.totalArea
      /\ sfidoData' = r.sfidoData
      /\ totalAreaConSfido' = r.totalAreaConSfido
      /\ handleExportPDF' = r.handleExportPDF
      /\ position' = ApplyPositionProps(position, dimensions, d)
      /\ UNCHANGED <<colors, isExploded, pdf, isoCalls, frames, previous>>

\* handleDimChange(key, value): onDimensionsChange({ ...dimensions, [key]: num })
\* followed by the render the state update causes
handleDimChange(key, value) ==
  LET d == [dimensions EXCEPT ![key] = DimValue(value)]
      r == Render(d, colors, TRUE, FALSE)
  IN  /\ Idle
      /\ dimensions' = d
      /\ surfaces' = r.surfaces
      /\ totalArea' = r.totalArea
      /\ sfidoData' = r.sfidoData
      /\ totalAreaConSfido' = r.totalAreaConSfido
      /\ handleExportPDF' = r.handleExportPDF
      /\ position' = ApplyPositionProps(position, dimensions, d)
      /\ UNCHANGED <<colors, isExploded, pdf, isoCalls, frames, previous>>

\* handleColorChange(key, value): onColorsChange({ ...colors, [key]: value })
handleColorChange(key, value) ==
  LET c == [colors EXCEPT ![key] = value]
      r == Render(dimensions, c, FALSE, TRUE)
  IN  /\ Idle
      /\ colors' = c
      /\ surfaces' = r.surfaces
      /\ totalArea' = r.totalArea
      /\ sfidoData' = r.sfidoData
      /\ totalAreaConSfido' = r.totalAreaConSfido
      /\ handleExportPDF' = r.handleExportPDF
      /\ UNCHANGED <<dimensions, isExploded, pdf, isoCalls, position, frames, previous>>

\* onClick={() => setIsExploded(!isExploded)}
ToggleExplode ==
  LET r == Render(dimensions, colors, FALSE, FALSE)
  IN  /\ Idle
      /\ isExploded' = ~isExploded
      /\ surfaces' = r.surfaces
      /\ totalArea' = r.totalArea
      /\ sfidoData' = r.sfidoData
      /\ totalAreaConSfido' = r.totalAreaConSfido
      /\ handleExportPDF' = r.handleExportPDF
      /\ UNCHANGED <<dimensions, colors, pdf, isoCalls, position, frames, previous>>

\* Faulty variant of OnExportPDF: the export folds the exploded view back.
OnExportPDFFoldsBack ==
  /\ Idle
  /\ \E now \in Clocks :
       pdf' \in ExportOutcomes(ExportCalls(handleExportPDF, now), now)
  /\ isExploded' = FALSE
  /\ UNCHANGED <<dimensions, colors, surfaces, totalArea,
                 sfidoData, totalAreaConSfido, handleExportPDF, isoCalls,
                 position, frames, previous>>

\* onClick={onExportPDF}: one run of the handleExportPDF closure, from
\* new jsPDF() to the last call it makes.  pdf is the handler's local document.
OnExportPDF ==
  /\ Idle
  /\ \E now \in Clocks :
       pdf' \in ExportOutcomes(ExportCalls(handleExportPDF, now), now)
  /\ UNCHANGED <<dimensions, colors, isExploded, surfaces, totalArea,
                 sfidoData, totalAreaConSfido, handleExportPDF, isoCalls,
                 position, frames, previous>>

\* handleExportPDF returns (or its exception leaves it): the local document
\* is gone and the next handler may run.
ExportReturn ==
  /\ pdf # NoPdf
  /\ ~pdf.suspended
  /\ pdf' = NoPdf
  /\ UNCHANGED <<dimensions, colors, isExploded, surfaces, totalArea,
                 sfidoData, totalAreaConSfido, handleExportPDF, isoCalls,
                 position, frames, previous>>

Next ==
  \/ \E in \in DimInputs : handleDimChange(in[1], in[2])
  \/ \E in \in ColorInputs : handleColorChange(in[1], in[2])
  \/ ToggleExplode
  \/ OnExportPDF
  \/ ExportReturn

Spec == Init /\ [][Next]_vars

-----------------------------------------------------------------------------
(* Successive exports: what a run has produced is kept when it returns     *)
(* (previous), next to the model it was invoked on, for the comparison      *)
(* with the run that follows.                                               *)

\* ExportReturn, the output of the run kept
ExportReturnLogged ==
  /\ pdf # NoPdf
  /\ ~pdf.suspended
  /\ pdf' = NoPdf
  /\ previous' =
       [ran |-> TRUE, calls |-> pdf.calls, failed |-> pdf.failed, now |-> pdf.now,
        dimensions |-> dimensions, colors |-> colors, isExploded |-> isExploded]
  /\ UNCHANGED <<dimensions, colors, isExploded, surfaces, totalArea,
                 sfidoData, totalAreaConSfido, handleExportPDF, isoCalls,
                 position, frames>>

\* the edits made between two exports
RunsDimInputs == { <<"length", Text("4")>>, <<"width", Text("3")>> }

RunsColorInputs == { <<"sides_long", Text("#2563eb")>> }

NextRuns ==
  \/ \E in \in RunsDimInputs : handleDimChange(in[1], in[2])
  \/ \E in \in RunsColorInputs : handleColorChange(in[1], in[2])
  \/ ToggleExplode
  \/ OnExportPDF
  \/ ExportReturnLogged

SpecRuns == Init /\ [][NextRuns]_vars

-----------------------------------------------------------------------------
(* The isometric projector on its own: toIso applied to points, between     *)
(* edits of the dimensions.  isoCalls keeps the last two applications,      *)
(* latest first.                                                            *)

\* coordinates handed to toIso
IsoXs == {I(-1), I(0), I(1)}

IsoYs == {I(-1), I(0)}

IsoZs == {I(0), I(1)}

\* const p = toIso(x, y, z)
CallToIso(x, y, z) ==
  /\ isoCalls' = << [x |-> x, y |-> y, z |-> z, out |-> toIso(x, y, z)] >>
                   \o (IF isoCalls = <<>> THEN <<>> ELSE << isoCalls[1] >>)
  /\ UNCHANGED <<dimensions, colors, isExploded, surfaces, totalArea,
                 sfidoData, totalAreaConSfido, handleExportPDF, pdf,
                 position, frames, previous>>

\* the edits made between applications of the projector
IsoDimInputs == { <<"length", Text("4")>>, <<"depth", Text("2.5")>> }

NextIso ==
  \/ \E x \in IsoXs, y \in IsoYs, z \in IsoZs : CallToIso(x, y, z)
  \/ \E in \in IsoDimInputs : handleDimChange(in[1], in[2])

SpecIso == Init /\ [][NextIso]_vars

-----------------------------------------------------------------------------
(* The live view: useFrame animates the five groups frame by frame, between *)
(* toggles of the explode flag and edits of the dimensions.                *)

\* frames followed from the initial state
MaxFrames == 6

\* const lerpSpeed = 0.1
lerpSpeed == Q(1, 10)

\* THREE.MathUtils.lerp(x, y, t) = (1 - t) * x + t * y
Lerp(x, y, t) == Add(Mul(Sub(I(1), t), x), Mul(t, y))

\* const targetExplode = isExploded ? 1 : 0
TargetExplode(e) == IF e THEN I(1) ELSE I(0)

\* Faulty variant of FrameTargets: the targets are those of the folded view,
\* whatever the flag.
FrameTargetsFolded(d, e) ==
  [bottom     |-> I(0),
   wallLong1  |-> Div(Neg(d.width), I(2)),
   wallLong2  |-> Div(d.width, I(2)),
   wallShort1 |-> Div(Neg(d.length), I(2)),
   wallShort2 |-> Div(d.length, I(2))]

\* the second argument of each lerp of useFrame
FrameTargets(d, e) ==
  [bottom     |-> Mul(Neg(TargetExplode(e)), Q(1, 2)),
   wallLong1  |-> Sub(Div(Neg(d.width), I(2)), Mul(TargetExplode(e), Q(3, 2))),
   wallLong2  |-> Add(Div(d.width, I(2)), Mul(TargetExplode(e), Q(3, 2))),
   wallShort1 |-> Sub(Div(Neg(d.length), I(2)), Mul(TargetExplode(e), Q(3, 2))),
   wallShort2 |-> Add(Div(d.length, I(2)), Mul(TargetExplode(e), Q(3, 2)))]

\* useFrame(() => { ... }): one frame, with the flag and the dimensions of
\* the latest render
UseFrame ==
  /\ Idle
  /\ frames < MaxFrames
  /\ position' =
       [g \in DOMAIN position |->
          Lerp(position[g], FrameTargets(dimensions, isExploded)[g], lerpSpeed)]
  /\ frames' = frames + 1
  /\ UNCHANGED <<dimensions, colors, isExploded, surfaces, totalArea,
                 sfidoData, totalAreaConSfido, handleExportPDF, pdf, isoCalls, previous>>

\* the edits made while the view is animated
AnimDimInputs ==
  { <<"length", Text("4")>>, <<"width", Text("3")>>, <<"width", <<>>>>,
    <<"width", Text("abc")>> }

NextAnim ==
  \/ UseFrame
  \/ ToggleExplode
  \/ \E in \in AnimDimInputs : handleDimChange(in[1], in[2])

\* a frame is rendered: within NextAnim these are the UseFrame steps
FrameRendered == frames < MaxFrames /\ frames' = frames + 1

\* the render loop calls the useFrame callback on every frame
SpecAnim == Init /\ [][NextAnim]_vars /\ WF_frames(FrameRendered)

-----------------------------------------------------------------------------
(* Properties *)

NonNegative(d) ==
  /\ Le(I(0), d.length) /\ Le(I(0), d.width)
  /\ Le(I(0), d.depth) /\ Le(I(0), d.sfido)

\* C1: whenever length, width, depth >= 0, the three surface records hold
\* bottom = length*width, long wall = length*depth, short wall = width*depth,
\* and totalArea = bottom + 2*longWall + 2*shortWall.
C1_AreaCorrect ==
  NonNegative(dimensions) =>
    /\ Len(surfaces) = 3
    /\ surfaces[1].id = "bottom"
    /\ surfaces[1].area = Mul(dimensions.length, dimensions.width)
    /\ surfaces[2].id = "sides_long"
    /\ surfaces[2].area = Mul(dimensions.length, dimensions.depth)
    /\ surfaces[3].id = "sides_short"
    /\ surfaces[3].area = Mul(dimensions.width, dimensions.depth)
    /\ totalArea =
         Add(Add(surfaces[1].area, Mul(I(2), surfaces[2].area)),
             Mul(I(2), surfaces[3].area))

\* a 4 x 3 x 2.5 excavation has been entered: the areas are 12, 10, 7.5, total 47
C1_Witness ==
  /\ dimensions.length = I(4)
  /\ dimensions.width = I(3)
  /\ dimensions.depth = Q(5, 2)
  /\ surfaces[1].area = I(12)
  /\ surfaces[2].area = I(10)
  /\ surfaces[3].area = Q(15, 2)
  /\ totalArea = I(47)

\* C2: whenever the dimensions are >= 0, longStripArea = length*sfido*2,
\* shortStripArea = width*sfido*2, totalStripArea is their sum and
\* totalAreaWithOverlap = totalArea + totalStripArea.
C2_OverlapCorrect ==
  NonNegative(dimensions) =>
    /\ sfidoData.sfidoLunghe = Mul(Mul(dimensions.length, dimensions.sfido), I(2))
    /\ sfidoData.sfidoCorte = Mul(Mul(dimensions.width, dimensions.sfido), I(2))
    /\ sfidoData.totale = Add(sfidoData.sfidoLunghe, sfidoData.sfidoCorte)
    /\ sfidoData.sfido = dimensions.sfido
    /\ totalAreaConSfido = Add(totalArea, sfidoData.totale)

\* a 4 x 3 x 2.5 excavation with sfido 0.2: strips 1.6 and 1.2, total 49.8
C2_Witness ==
  /\ dimensions.length = I(4)
  /\ dimensions.width = I(3)
  /\ dimensions.depth = Q(5, 2)
  /\ dimensions.sfido = Q(1, 5)
  /\ sfidoData.sfidoLunghe = Q(8, 5)
  /\ sfidoData.sfidoCorte = Q(6, 5)
  /\ sfidoData.totale = Q(14, 5)
  /\ totalAreaConSfido = Q(249, 5)

\* What an export invoked now must read: everything computed from scratch
\* from the current dimensions and colours.
CurrentValues ==
  LET t  == ComputeTotalArea(ComputeSurfaces(dimensions, colors))
      sf == ComputeSfidoData(dimensions)
  IN  [dimensions |-> dimensions, colors |-> colors, totalArea |-> t,
       sfidoData |-> sf, totalAreaConSfido |-> ComputeTotalAreaConSfido(t, sf)]

IsPrefix(s, t) == Len(s) <= Len(t) /\ s = SubSeq(t, 1, Len(s))

\* C3: after any sequence of dimension and colour edits, every memoised value
\* and the values captured by the export callback are those computed from the
\* current dimensions and colours, and the calls an export makes are exactly
\* the ones those current values give: nothing from an earlier state survives.
C3_NoStaleValue ==
  /\ surfaces = ComputeSurfaces(dimensions, colors)
  /\ handleExportPDF = CurrentValues
  /\ pdf # NoPdf => IsPrefix(pdf.calls, ExportCalls(CurrentValues, pdf.now))

\* an export that ran to the end after edits that left totalArea and
\* totalAreaConSfido at 0 while sfido went from 0 to 0.2
C3_Witness ==
  /\ pdf.saved = 1
  /\ dimensions.sfido = Q(1, 5)
  /\ totalArea = I(0)
  /\ totalAreaConSfido = I(0)
  /\ \E i \in 1..Len(pdf.calls) : pdf.calls[i].site = "sfidoBlock"

LayoutSites ==
  {"faceBase", "faceLong1", "faceLong2", "faceShort1", "faceShort2", "strip", "fold"}

\* the four coordinates of a rect or line call are finite numbers
FiniteCoords(call) ==
  call.op \in {"rect", "line"} => \A j \in 1..4 : IsFinite(call.args[j])

SomeZeroSide(d) == d.length = I(0) \/ d.width = I(0) \/ d.depth = I(0)

\* C4: when length, width or depth is 0 (the all-zero initial state included)
\* the layout planner of page 1 yields a finite scale and finite coordinates:
\* no Infinity or NaN reaches a rect or line call of the unfolded layout.
C4_LayoutFinite ==
  (pdf # NoPdf /\ NonNegative(handleExportPDF.dimensions)
     /\ SomeZeroSide(handleExportPDF.dimensions)) =>
    /\ IsFinite(Scale(handleExportPDF.dimensions))
    /\ \A i \in 1..Len(pdf.calls) :
         pdf.calls[i].site \in LayoutSites => FiniteCoords(pdf.calls[i])

\* C5: every export, whatever the input values (all zero included), produces
\* a document of exactly 2 pages: the step from page 1 to page 2 is taken
\* exactly once, and no export ends with 1 page or with more than 2.
C5_ExactlyTwoPages ==
  pdf # NoPdf =>
    /\ pdf.pages = 2
    /\ CountOp(pdf.calls, "addPage") = 1

\* where the export draws or writes about the overlap (sfido): the strips and
\* their labels on page 1, the detail block, the bands and their outline on
\* page 2, the legend entry
OverlapSites ==
  {"strip", "stripLabel", "sfidoBlock", "isoSfidoBack", "isoSfidoLeft",
   "isoSfidoRight", "isoSfidoFront", "isoSfidoEdge", "legendSfido"}

\* C6: when sfido = 0 an export draws no overlap strip or band and writes no
\* overlap label, detail block, legend entry or any other overlap text, on
\* either page.
C6_NoOverlapWhenZero ==
  (pdf # NoPdf /\ handleExportPDF.dimensions.sfido = I(0)) =>
    \A i \in 1..Len(pdf.calls) :
      /\ pdf.calls[i].site \notin OverlapSites
      /\ pdf.calls[i].op = "text" =>
           pdf.calls[i].args[1] # TotalBreakdownText(handleExportPDF)

\* '#' followed by exactly 6 hex digits
IsValidColor(color) ==
  /\ Len(color) = 7
  /\ color[1] = CodeUnit("#")
  /\ \A i \in 2..7 : IsHexDigit(color[i])

AllColorsValid(c) ==
  /\ IsValidColor(c.bottom) /\ IsValidColor(c.sides_long)
  /\ IsValidColor(c.sides_short) /\ IsValidColor(SfidoColor(c))

\* an integer within 0..255
IsChannel(x) == IsFinite(x) /\ x.d = 1 /\ 0 <= x.n /\ x.n <= 255

\* C7: with valid 6-hex-digit colours, every setFillColor and setDrawColor
\* call of an export gets three integer channels within 0..255, the lightened
\* and darkened shades and the outline colour of the overlap strips included.
C7_ChannelsInRange ==
  (pdf # NoPdf /\ AllColorsValid(handleExportPDF.colors)) =>
    \A i \in 1..Len(pdf.calls) :
      pdf.calls[i].op \in {"setFillColor", "setDrawColor"} =>
        /\ Len(pdf.calls[i].args) = 3
        /\ \A j \in 1..3 : IsChannel(pdf.calls[i].args[j])

\* C9: after any sequence of sidebar edits, whatever text was typed, the four
\* stored dimension values are all >= 0.
C9_DimensionsNonNegative == NonNegative(dimensions)

\* C10: an export is atomic: save is made at most once, only as the last call
\* and only after every call of both pages has been made; when a call throws,
\* nothing is saved and no call is made again.
C10_ExportAtomic ==
  pdf # NoPdf =>
    LET all == ExportCalls(handleExportPDF, pdf.now)
        n   == Len(pdf.calls)
    IN  /\ pdf.saved <= 1
        /\ IsPrefix(pdf.calls, all)
        /\ pdf.saved = 1 =>
             /\ ~pdf.failed
             /\ n = Len(all)
             /\ pdf.calls[n].op = "save"
             /\ \A i \in 1..(n - 1) : pdf.calls[i].op # "save"
        /\ pdf.failed => pdf.saved = 0 /\ n < Len(all)

\* an export of the all-zero model in which jsPDF has thrown at the first
\* rectangle of page 1: nothing after it is made, nothing is saved
C10_Witness ==
  /\ pdf.failed
  /\ pdf.saved = 0
  /\ pdf.pages = 1
  /\ handleExportPDF.dimensions = InitDimensions
  /\ Len(pdf.calls) + 1 = RejectedAt(ExportCalls(handleExportPDF, pdf.now))
  /\ ExportCalls(handleExportPDF, pdf.now)[Len(pdf.calls) + 1].site = "faceBase"

\* C11: an export never changes the model: a step in which handleExportPDF
\* runs, returns or fails leaves dimensions, colours and the explode flag
\* with the values they had before.
C11_ExportKeepsModel ==
  [][pdf' # pdf => UNCHANGED <<dimensions, colors, isExploded>>]_vars

\* an export of a model with an edited colour, exploded, has failed on
\* page 1: the model is still the edited one
C11_Witness ==
  /\ pdf.failed
  /\ pdf.pages = 1
  /\ isExploded
  /\ dimensions = InitDimensions
  /\ colors.sides_short = Text("#ffffff")

\* a run has returned and another is under way
BothRan == previous.ran /\ pdf # NoPdf

\* the run under way was invoked on the dimensions and colours of the run
\* before it, and has read the same time
SameSnapshot ==
  /\ previous.dimensions = dimensions
  /\ previous.colors = colors
  /\ previous.now = pdf.now

\* one of the two call sequences begins the other
Comparable(s, t) == IsPrefix(s, t) \/ IsPrefix(t, s)

\* C12: an export runs to completion: no step changes the dimensions or the
\* colours while a document is being built.
\* Of two exports in succession, each builds its document from the model at
\* its own invocation and nothing of the first reaches the second: when both
\* ran to the end, their calls are the same exactly when the dimensions, the
\* colours and the time read are the same.
C12_RunToCompletion ==
  /\ [][(dimensions' # dimensions \/ colors' # colors)
          => (pdf = NoPdf /\ pdf' = NoPdf)]_vars
  /\ []((BothRan /\ ~previous.failed /\ ~pdf.failed) =>
          (previous.calls = pdf.calls <=> SameSnapshot))

\* two exports that ran to their save, the length edited from 0 to 4 in
\* between: the second document is not the first
C12_Witness ==
  /\ previous.ran /\ ~previous.failed
  /\ pdf.saved = 1
  /\ previous.dimensions.length = I(0)
  /\ dimensions.length = I(4)
  /\ previous.colors = colors
  /\ previous.now = pdf.now
  /\ previous.calls # pdf.calls

\* C13: the report does not depend on the explode flag: two exports from
\* models with the same dimensions and colours and different flags make the
\* same calls (of two runs one of which was ended by an exception, the
\* shorter begins the longer), and toggling the flag changes neither
\* dimensions nor colours nor the values the export callback holds.
C13_ExplodeIrrelevant ==
  /\ []((BothRan /\ SameSnapshot /\ previous.isExploded # isExploded) =>
          IF previous.failed \/ pdf.failed
          THEN Comparable(previous.calls, pdf.calls)
          ELSE previous.calls = pdf.calls)
  /\ [][isExploded' # isExploded =>
          UNCHANGED <<dimensions, colors, handleExportPDF>>]_vars

\* length 4 exported to the end with the view folded, then again with the
\* view exploded: the same calls
C13_Witness ==
  /\ previous.ran /\ ~previous.failed
  /\ pdf.saved = 1
  /\ ~previous.isExploded /\ isExploded
  /\ SameSnapshot
  /\ dimensions.length = I(4)
  /\ previous.calls = pdf.calls
  /\ CountOp(pdf.calls, "addPage") = 1

\* C14: toIso maps (x, y, z) to (centerX + (x - z)*cos30,
\* centerY - y + (x + z)*sin30), with centre (105, 130) and sin30 = 1/2:
\* toIso(0,0,0) is the centre itself and toIso(1,0,0) is
\* (105 + cos30, 130 + 1/2).  The first coordinate is held as c + k*cos30.
C14_ToIsoFormula ==
  \A i \in 1..Len(isoCalls) :
    LET p == isoCalls[i]
    IN  /\ p.out[1].c = Div(I(PageWidth), I(2))
        /\ p.out[1].k = Sub(p.x, p.z)
        /\ p.out[2] = Add(Sub(I(130), p.y), Div(Add(p.x, p.z), I(2)))
        /\ (p.x = I(0) /\ p.y = I(0) /\ p.z = I(0)) =>
             p.out = << [c |-> I(105), k |-> I(0)], I(130) >>
        /\ (p.x = I(1) /\ p.y = I(0) /\ p.z = I(0)) =>
             p.out = << [c |-> I(105), k |-> I(1)], Q(261, 2) >>

\* toIso(1,0,0) has just been applied, after toIso(0,0,0)
C14_Witness ==
  /\ Len(isoCalls) = 2
  /\ isoCalls[1].x = I(1) /\ isoCalls[1].y = I(0) /\ isoCalls[1].z = I(0)
  /\ isoCalls[1].out = << [c |-> I(105), k |-> I(1)], Q(261, 2) >>
  /\ isoCalls[2].x = I(0) /\ isoCalls[2].y = I(0) /\ isoCalls[2].z = I(0)
  /\ isoCalls[2].out = << [c |-> I(105), k |-> I(0)], I(130) >>

\* the arguments of the rect calls made at site, in the order of the calls
RectsAt(calls, site) ==
  LET idx == SelectSeq([i \in 1..Len(calls) |-> i],
                       LAMBDA i : calls[i].op = "rect" /\ calls[i].site = site)
  IN  [j \in 1..Len(idx) |-> calls[idx[j]].args]

\* page 1 has been drawn up to the fold lines
LayoutDrawn == \E i \in 1..Len(pdf.calls) : pdf.calls[i].site = "fold"

\* C16: the unfolded layout uses one scale
\* min(availableWidth / rawWidth, availableHeight / rawHeight) * marginFactor,
\* marginFactor within [0.85, 0.9], rawWidth = depth + length + depth + 4*sfido,
\* rawHeight = depth + width + depth + 4*sfido, and that one scale multiplies
\* length, width, depth and sfido in every rectangle drawn.
C16_UniformScale ==
  (pdf # NoPdf /\ LayoutDrawn) =>
    LET d     == handleExportPDF.dimensions
        rawW  == Add(Add(Add(d.depth, d.length), d.depth), Mul(I(4), d.sfido))
        rawH  == Add(Add(Add(d.depth, d.width), d.depth), Mul(I(4), d.sfido))
        fit   == MathMin(Div(I(210 - 2 * 12), rawW), Div(I(160), rawH))
        scale == Mul(fit, Q(85, 100))
        base  == RectsAt(pdf.calls, "faceBase")[1]
        long  == RectsAt(pdf.calls, "faceLong1")[1]
        short == RectsAt(pdf.calls, "faceShort1")[1]
        strip == RectsAt(pdf.calls, "strip")
    IN  /\ (IsFinite(fit) /\ fit # I(0) /\ d.length # I(0)) =>
             LET marginFactor == Div(Div(base[3], d.length), fit)
             IN  Le(Q(85, 100), marginFactor) /\ Le(marginFactor, Q(9, 10))
        /\ base[3] = Mul(d.length, scale) /\ base[4] = Mul(d.width, scale)
        /\ long[3] = Mul(d.length, scale) /\ long[4] = Mul(d.depth, scale)
        /\ short[3] = Mul(d.depth, scale) /\ short[4] = Mul(d.width, scale)
        /\ Len(strip) > 0 =>
             /\ strip[1][3] = Mul(d.length, scale)
             /\ strip[1][4] = Mul(d.sfido, scale)
             /\ strip[3][3] = Mul(d.sfido, scale)
             /\ strip[3][4] = Mul(d.width, scale)

\* 4 x 3 x 2.5 with sfido 0.5 exported: fit = min(186/11, 160/10) = 16,
\* scale 13.6, base 54.4 x 40.8, walls 34 deep, strips 6.8 wide
C16_Witness ==
  /\ pdf.saved = 1
  /\ handleExportPDF.dimensions =
       [length |-> I(4), width |-> I(3), depth |-> Q(5, 2), sfido |-> Q(1, 2)]
  /\ RectsAt(pdf.calls, "faceBase")[1][3] = Q(272, 5)
  /\ RectsAt(pdf.calls, "faceBase")[1][4] = Q(204, 5)
  /\ RectsAt(pdf.calls, "faceLong1")[1][4] = I(34)
  /\ RectsAt(pdf.calls, "strip")[1][4] = Q(34, 5)

SomePositive(d) ==
  Gt(d.length, I(0)) \/ Gt(d.width, I(0)) \/ Gt(d.depth, I(0)) \/ Gt(d.sfido, I(0))

\* the rectangle x, y, w, h lies in the region reserved for the drawing:
\* from margin to pageWidth - margin across, 160 down from yPos = 25
InDrawArea(r) ==
  /\ Le(I(0), r[3]) /\ Le(I(0), r[4])
  /\ Le(I(12), r[1]) /\ Le(Add(r[1], r[3]), I(210 - 12))
  /\ Le(I(25), r[2]) /\ Le(Add(r[2], r[4]), I(25 + 160))

\* C17: for every model with at least one positive dimension, every
\* rectangle of the unfolded layout (base, four walls and, when drawn, the
\* four strips) lies inside the region reserved for the drawing.
C17_LayoutInsideRegion ==
  (pdf # NoPdf /\ SomePositive(handleExportPDF.dimensions)) =>
    \A i \in 1..Len(pdf.calls) :
      (pdf.calls[i].op = "rect"
         /\ pdf.calls[i].site \in
              {"faceBase", "faceLong1", "faceLong2", "faceShort1", "faceShort2", "strip"})
        => InDrawArea(pdf.calls[i].args)

\* C18: on page 1 the four strips are drawn exactly when sfido > 0 and the
\* scaled strip width exceeds 2, their two labels exactly when it also
\* exceeds 6; when drawn there are four strips, each as long as its wall and
\* touching the wall's outer edge: above long wall 1, below long wall 2, left
\* of short wall 1, right of short wall 2.
C18_StripThresholds ==
  (pdf # NoPdf /\ LayoutDrawn) =>
    LET d      == handleExportPDF.dimensions
        rawW   == Add(Add(Add(d.depth, d.length), d.depth), Mul(I(4), d.sfido))
        rawH   == Add(Add(Add(d.depth, d.width), d.depth), Mul(I(4), d.sfido))
        width  == Mul(d.sfido,
                      Mul(MathMin(Div(I(186), rawW), Div(I(160), rawH)), Q(85, 100)))
        strip  == RectsAt(pdf.calls, "strip")
        labels == Cardinality({i \in 1..Len(pdf.calls) :
                                 pdf.calls[i].site = "stripLabel"})
        long1  == RectsAt(pdf.calls, "faceLong1")[1]
        long2  == RectsAt(pdf.calls, "faceLong2")[1]
        short1 == RectsAt(pdf.calls, "faceShort1")[1]
        short2 == RectsAt(pdf.calls, "faceShort2")[1]
    IN  /\ Len(strip) =
             (IF Gt(d.sfido, I(0)) /\ GtOf(width, SSfidoDouble(d), 2) THEN 4 ELSE 0)
        /\ labels =
             (IF Len(strip) = 4 /\ GtOf(width, SSfidoDouble(d), 6) THEN 2 ELSE 0)
        /\ Len(strip) = 4 =>
             /\ \A j \in 1..4 : strip[j][5] = "FD"
             /\ strip[1][1] = long1[1] /\ strip[1][3] = long1[3]
             /\ strip[1][4] = width /\ Add(strip[1][2], strip[1][4]) = long1[2]
             /\ strip[2][1] = long2[1] /\ strip[2][3] = long2[3]
             /\ strip[2][4] = width /\ strip[2][2] = Add(long2[2], long2[4])
             /\ strip[3][2] = short1[2] /\ strip[3][4] = short1[4]
             /\ strip[3][3] = width /\ Add(strip[3][1], strip[3][3]) = short1[1]
             /\ strip[4][2] = short2[2] /\ strip[4][4] = short2[4]
             /\ strip[4][3] = width /\ strip[4][1] = Add(short2[1], short2[3])

\* 4 x 3 x 2.5 with sfido 0.2 exported: the strips are 3.09 wide, drawn, unlabelled
C18_Witness ==
  /\ pdf.saved = 1
  /\ handleExportPDF.dimensions =
       [length |-> I(4), width |-> I(3), depth |-> Q(5, 2), sfido |-> Q(1, 5)]
  /\ Len(RectsAt(pdf.calls, "strip")) = 4
  /\ Gt(RectsAt(pdf.calls, "strip")[1][4], I(3))
  /\ Lt(RectsAt(pdf.calls, "strip")[1][4], I(4))
  /\ \A i \in 1..Len(pdf.calls) : pdf.calls[i].site # "stripLabel"

\* C19: each of the three surface records carries, besides area, a defined
\* numeric areaConSfido, equal to area when sfido = 0 and accounting for the
\* strip when sfido > 0, so the total summed over areaConSfido is a number.
C19_AreaConSfidoDefined ==
  /\ \A i \in 1..Len(surfaces) :
       LET a == Property(surfaces[i], "areaConSfido")
       IN  /\ ~IsUndefined(a)
           /\ ~IsNaN(a)
           /\ dimensions.sfido = I(0) => a = surfaces[i].area
           /\ Gt(dimensions.sfido, I(0)) => Le(surfaces[i].area, a)
  /\ ~IsNaN(SidebarTotalAreaConSfido(surfaces))

\* C20: for length 4, width 3, depth 2.5 and sfido 0 the model holds
\* bottom area 12.00, long wall area 10.00, short wall area 7.50 and
\* totalArea 47.00 m2.
C20_StandardBox ==
  dimensions = [length |-> I(4), width |-> I(3), depth |-> Q(5, 2), sfido |-> I(0)] =>
    /\ surfaces[1].id = "bottom" /\ surfaces[1].area = I(12)
    /\ ToFixed(surfaces[1].area, 2) = "12.00"
    /\ surfaces[2].id = "sides_long" /\ surfaces[2].area = I(10)
    /\ ToFixed(surfaces[2].area, 2) = "10.00"
    /\ surfaces[3].id = "sides_short" /\ surfaces[3].area = Q(15, 2)
    /\ ToFixed(surfaces[3].area, 2) = "7.50"
    /\ totalArea = I(47)
    /\ ToFixed(totalArea, 2) = "47.00"

\* the standard box has been entered, whatever was typed before
C20_Witness ==
  /\ dimensions = [length |-> I(4), width |-> I(3), depth |-> Q(5, 2), sfido |-> I(0)]
  /\ ToFixed(totalArea, 2) = "47.00"
  /\ totalAreaConSfido = I(47)
  /\ pdf = NoPdf

\* C21: for length 4, width 3, depth 2.5 and sfido 0.2 the model holds long
\* strip area 1.6, short strip area 1.2, total strip area 2.8 and total area
\* with overlap 49.80 m2.
C21_OverlapBox ==
  dimensions = [length |-> I(4), width |-> I(3), depth |-> Q(5, 2), sfido |-> Q(1, 5)] =>
    /\ sfidoData.sfidoLunghe = Q(16, 10)
    /\ sfidoData.sfidoCorte = Q(12, 10)
    /\ sfidoData.totale = Q(28, 10)
    /\ totalArea = I(47)
    /\ totalAreaConSfido = Q(498, 10)
    /\ ToFixed(totalAreaConSfido, 2) = "49.80"

\* the box with sfido 0.2 has been entered and exported: the total box of
\* page 1 shows 49.8
C21_Witness ==
  /\ dimensions = [length |-> I(4), width |-> I(3), depth |-> Q(5, 2), sfido |-> Q(1, 5)]
  /\ pdf.saved = 1
  /\ \E i \in 1..Len(pdf.calls) :
       /\ pdf.calls[i].op = "text"
       /\ pdf.calls[i].site = "totalBox"
       /\ pdf.calls[i].args[1] = "49.8 m2"

\* the indices of the calls of op made at one of the sites, in call order
CallsOf(calls, op, sites) ==
  SelectSeq([i \in 1..Len(calls) |-> i],
            LAMBDA i : calls[i].op = op /\ calls[i].site \in sites)

IsoFaceSites == {"isoBack", "isoLeft", "isoBase", "isoRight", "isoFront"}

IsoBandSites == {"isoSfidoBack", "isoSfidoLeft", "isoSfidoRight", "isoSfidoFront"}

\* C22: on the isometric page the polygons are filled in the fixed order back
\* wall (long colour), left wall (short colour), base, right wall (short
\* colour lightened by 30), front wall (long colour lightened by 20), whatever
\* the dimensions; when sfido > 0 the four bands are filled after the five
\* faces, and when sfido = 0 no band is filled.
C22_FillOrder ==
  pdf # NoPdf =>
    LET cb    == handleExportPDF
        long  == Channels(cb.colors.sides_long)
        short == Channels(cb.colors.sides_short)
        fills == CallsOf(pdf.calls, "fill", IsoFaceSites \cup IsoBandSites)
        cols  == CallsOf(pdf.calls, "setFillColor", IsoFaceSites)
        sites == [j \in 1..Len(fills) |-> pdf.calls[fills[j]].site]
        order == <<"isoBack", "isoLeft", "isoBase", "isoRight", "isoFront">>
                   \o (IF Gt(cb.dimensions.sfido, I(0))
                       THEN <<"isoSfidoBack", "isoSfidoLeft", "isoSfidoRight",
                              "isoSfidoFront">>
                       ELSE <<>>)
        shade == << long, short, Channels(cb.colors.bottom),
                    [j \in 1..3 |-> MathMin(I(255), Add(short[j], I(30)))],
                    [j \in 1..3 |-> MathMin(I(255), Add(long[j], I(20)))] >>
    IN  /\ IsPrefix(sites, order)
        /\ pdf.saved = 1 => sites = order
        /\ \A j \in 1..Len(cols) :
             /\ j <= 5
             /\ pdf.calls[cols[j]].site = order[j]
             /\ pdf.calls[cols[j]].args = shade[j]

\* a box longer than wide (4 x 3 x 2.5, sfido 0.2) exported: nine fills
C22_Witness ==
  /\ pdf.saved = 1
  /\ handleExportPDF.dimensions =
       [length |-> I(4), width |-> I(3), depth |-> Q(5, 2), sfido |-> Q(1, 5)]
  /\ Len(CallsOf(pdf.calls, "fill", IsoFaceSites)) = 5
  /\ Len(CallsOf(pdf.calls, "fill", IsoBandSites)) = 4
  /\ CallsOf(pdf.calls, "fill", IsoFaceSites)[5]
       < CallsOf(pdf.calls, "fill", IsoBandSites)[1]

\* the dash pattern in force when call i is made: the array of the latest
\* setLineDashPattern before it, <<>> (solid) when there is none
DashAt(calls, i) ==
  LET ds == {j \in 1..(i - 1) : calls[j].op = "setLineDashPattern"}
  IN  IF ds = {} THEN <<>>
      ELSE calls[CHOOSE m \in ds : \A k \in ds : k <= m].args[1]

IsoEdgeSites == {"isoEdgeBase", "isoEdgeVert", "isoEdgeRim", "isoSfidoEdge"}

\* C23: on the isometric page every edge is stroked after every polygon fill
\* (faces and bands); the four base edges and the four vertical edges are
\* stroked solid, the four rim edges dashed, and the dash pattern is back to
\* solid before any later line and at the end of the page.
C23_EdgesOnTop ==
  pdf # NoPdf =>
    LET calls == pdf.calls
        fills == CallsOf(calls, "fill", IsoFaceSites \cup IsoBandSites)
        base  == CallsOf(calls, "line", {"isoEdgeBase"})
        vert  == CallsOf(calls, "line", {"isoEdgeVert"})
        rim   == CallsOf(calls, "line", {"isoEdgeRim"})
        edges == CallsOf(calls, "line", IsoEdgeSites)
    IN  /\ \A e \in 1..Len(edges) :
             /\ Len(fills) = 5 + (IF Gt(handleExportPDF.dimensions.sfido, I(0))
                                  THEN 4 ELSE 0)
             /\ \A f \in 1..Len(fills) : fills[f] < edges[e]
        /\ \A e \in 1..Len(base) : DashAt(calls, base[e]) = <<>>
        /\ \A e \in 1..Len(vert) : DashAt(calls, vert[e]) = <<>>
        /\ \A e \in 1..Len(rim) : DashAt(calls, rim[e]) = <<2, 1>>
        /\ \A i \in 1..Len(calls) :
             (calls[i].op = "line" /\ Len(rim) > 0 /\ i > rim[Len(rim)])
               => DashAt(calls, i) = <<>>
        /\ pdf.saved = 1 =>
             /\ Len(base) = 4 /\ Len(vert) = 4 /\ Len(rim) = 4
             /\ base[4] < vert[1] /\ vert[4] < rim[1]
             /\ DashAt(calls, Len(calls)) = <<>>

\* the box with sfido 0.2 exported: 9 fills, then 4 band outlines and 12 edges
C23_Witness ==
  /\ pdf.saved = 1
  /\ Gt(handleExportPDF.dimensions.sfido, I(0))
  /\ Len(CallsOf(pdf.calls, "fill", IsoFaceSites \cup IsoBandSites)) = 9
  /\ Len(CallsOf(pdf.calls, "line", IsoEdgeSites)) = 16
  /\ DashAt(pdf.calls, CallsOf(pdf.calls, "line", {"isoEdgeRim"})[1]) = <<2, 1>>

\* k * cos30 <= r, with cos30 = sqrt(3)/2, decided on the squares
CosLe(k, r) ==
  IF Le(I(0), k)
  THEN Le(I(0), r) /\ Le(Mul(I(3), Mul(k, k)), Mul(I(4), Mul(r, r)))
  ELSE Le(I(0), r) \/ Le(Mul(I(4), Mul(r, r)), Mul(I(3), Mul(k, k)))

\* the projected point <<c + k*cos30, y>> lies on the page
OnPage(x, y) ==
  /\ IsFinite(x.c) /\ IsFinite(x.k) /\ IsFinite(y)
  /\ CosLe(x.k, Sub(I(PageWidth), x.c))
  /\ CosLe(Neg(x.k), x.c)
  /\ Le(I(0), y) /\ Le(y, I(PageHeight))

\* C24: for every model of finite values >= 0, every projected vertex of the
\* isometric drawing, the outward band vertices included, lies within the
\* page (0..210 across, 0..297 down).
C24_IsoInsidePage ==
  (pdf # NoPdf /\ NonNegative(handleExportPDF.dimensions)) =>
    \A i \in 1..Len(pdf.calls) :
      LET call == pdf.calls[i]
      IN  (call.site \in IsoFaceSites \cup IsoBandSites \cup IsoEdgeSites) =>
            /\ call.op \in {"moveTo", "lineTo"} => OnPage(call.args[1], call.args[2])
            /\ call.op = "line" =>
                 OnPage(call.args[1], call.args[2]) /\ OnPage(call.args[3], call.args[4])

\* the drawn point of a moveTo/lineTo call, or the start point of a line call
PointOf(calls, i) == << calls[i].args[1], calls[i].args[2] >>

\* the horizontal position (x, z) of the point of height level that toIso
\* projects to p: x - z is the cos30 part of p[1], x + z = 2*(p[2] - 130 + level)
Unproject(p, level) ==
  LET h == Mul(I(2), Add(Sub(p[2], I(IsoCenterY)), level))
  IN  [x |-> Div(Add(h, p[1].k), I(2)), z |-> Div(Sub(h, p[1].k), I(2))]

\* squared distance of a horizontal position from the vertical axis x = z = 0
AxisDist2(q) == Add(Mul(q.x, q.x), Mul(q.z, q.z))

\* the rim vertices E, F, G, H (start points of the four rim edges) and the
\* n-th vertex of a band polygon, at the height of the rim
RimVertex(calls, d, n) ==
  Unproject(PointOf(calls, CallsOf(calls, "line", {"isoEdgeRim"})[n]), SD(d))

BandVertex(calls, d, site, n) ==
  Unproject(PointOf(calls, CallsOf(calls, "lineTo", {site})[n]), SD(d))

\* o is r moved by (dx, dz) at the height of the rim
MovedBy(r, o, dx, dz) == o.x = Add(r.x, dx) /\ o.z = Add(r.z, dz)

\* the eight outward vertices: each is a rim vertex moved by the scaled
\* overlap width along one horizontal axis, at the height of the rim
OutwardDerived(calls, d) ==
  LET s == Mul(d.sfido, I(IsoScale))
      E == RimVertex(calls, d, 1)
      F == RimVertex(calls, d, 2)
      G == RimVertex(calls, d, 3)
      H == RimVertex(calls, d, 4)
  IN  /\ Len(CallsOf(calls, "fill", IsoBandSites)) = 4
      /\ Len(CallsOf(calls, "lineTo", IsoBandSites)) = 16
      /\ \A i \in 1..Len(calls) :
           (calls[i].op = "lineTo" /\ calls[i].site \in IsoBandSites)
             => calls[i].args[1].c = IsoCenterX
      \* back band E, F, F_out, E_out : -z
      /\ BandVertex(calls, d, "isoSfidoBack", 1) = E
      /\ BandVertex(calls, d, "isoSfidoBack", 2) = F
      /\ MovedBy(F, BandVertex(calls, d, "isoSfidoBack", 3), I(0), Neg(s))
      /\ MovedBy(E, BandVertex(calls, d, "isoSfidoBack", 4), I(0), Neg(s))
      \* left band E, E_side, H_side, H : -x
      /\ BandVertex(calls, d, "isoSfidoLeft", 1) = E
      /\ MovedBy(E, BandVertex(calls, d, "isoSfidoLeft", 2), Neg(s), I(0))
      /\ MovedBy(H, BandVertex(calls, d, "isoSfidoLeft", 3), Neg(s), I(0))
      /\ BandVertex(calls, d, "isoSfidoLeft", 4) = H
      \* right band F, G, G_side, F_side : +x
      /\ BandVertex(calls, d, "isoSfidoRight", 1) = F
      /\ BandVertex(calls, d, "isoSfidoRight", 2) = G
      /\ MovedBy(G, BandVertex(calls, d, "isoSfidoRight", 3), s, I(0))
      /\ MovedBy(F, BandVertex(calls, d, "isoSfidoRight", 4), s, I(0))
      \* front band H, H_out, G_out, G : +z
      /\ BandVertex(calls, d, "isoSfidoFront", 1) = H
      /\ MovedBy(H, BandVertex(calls, d, "isoSfidoFront", 2), I(0), s)
      /\ MovedBy(G, BandVertex(calls, d, "isoSfidoFront", 3), I(0), s)
      /\ BandVertex(calls, d, "isoSfidoFront", 4) = G

\* each outward vertex is farther from the vertical axis than its rim vertex
OutwardFarther(calls, d) ==
  /\ \A n \in {3, 4} :
       /\ Lt(AxisDist2(BandVertex(calls, d, "isoSfidoBack", 5 - n)),
             AxisDist2(BandVertex(calls, d, "isoSfidoBack", n)))
       /\ Lt(AxisDist2(BandVertex(calls, d, "isoSfidoRight", 5 - n)),
             AxisDist2(BandVertex(calls, d, "isoSfidoRight", n)))
  /\ \A n \in {2, 3} :
       /\ Lt(AxisDist2(BandVertex(calls, d, "isoSfidoLeft", IF n = 2 THEN 1 ELSE 4)),
             AxisDist2(BandVertex(calls, d, "isoSfidoLeft", n)))
       /\ Lt(AxisDist2(BandVertex(calls, d, "isoSfidoFront", IF n = 2 THEN 1 ELSE 4)),
             AxisDist2(BandVertex(calls, d, "isoSfidoFront", n)))

\* C25: when sfido > 0 the isometric page has eight outward vertices, each a
\* rim vertex moved by the scaled overlap width along one horizontal axis
\* (-z back, +z front, -x left, +x right) at the height of the rim, and each
\* is farther from the axis of the prism than its rim vertex.
C25_OutwardVertices ==
  (pdf.saved = 1 /\ Gt(handleExportPDF.dimensions.sfido, I(0))) =>
    /\ OutwardDerived(pdf.calls, handleExportPDF.dimensions)
    /\ OutwardFarther(pdf.calls, handleExportPDF.dimensions)

\* the sides of the rectangle x, y, w, h, whatever the signs of w and h
RectLeft(r)   == MathMin(r[1], Add(r[1], r[3]))

RectRight(r)  == MathMax(r[1], Add(r[1], r[3]))

RectTop(r)    == MathMin(r[2], Add(r[2], r[4]))

RectBottom(r) == MathMax(r[2], Add(r[2], r[4]))

\* no point lies strictly inside both rectangles
InteriorsDisjoint(r, q) ==
  ~ /\ Lt(RectLeft(r), RectRight(q)) /\ Lt(RectLeft(q), RectRight(r))
    /\ Lt(RectTop(r), RectBottom(q)) /\ Lt(RectTop(q), RectBottom(r))

\* the five face rectangles of the unfolded layout form a cross around the
\* centred base, and the four dashed fold lines are the four edges of the base
CrossLayout(calls) ==
  LET base   == RectsAt(calls, "faceBase")[1]
      long1  == RectsAt(calls, "faceLong1")[1]
      long2  == RectsAt(calls, "faceLong2")[1]
      short1 == RectsAt(calls, "faceShort1")[1]
      short2 == RectsAt(calls, "faceShort2")[1]
      faces  == <<base, long1, long2, short1, short2>>
      folds  == CallsOf(calls, "line", {"fold"})
      x0     == base[1]
      x1     == Add(base[1], base[3])
      y0     == base[2]
      y1     == Add(base[2], base[4])
  IN  \* the base is centred on the page and on the drawing area
      /\ IsFinite(base[1]) /\ IsFinite(base[2])
      /\ IsFinite(base[3]) /\ IsFinite(base[4])
      /\ Add(base[1], Div(base[3], I(2))) = Div(I(PageWidth), I(2))
      /\ Add(base[2], Div(base[4], I(2))) = I(25 + 80)
      \* long walls above and below, on the full length of the base
      /\ long1[1] = x0 /\ long1[3] = base[3] /\ Add(long1[2], long1[4]) = y0
      /\ long2[1] = x0 /\ long2[3] = base[3] /\ long2[2] = y1
      \* short walls left and right, on the full width of the base
      /\ short1[2] = y0 /\ short1[4] = base[4] /\ Add(short1[1], short1[3]) = x0
      /\ short2[2] = y0 /\ short2[4] = base[4] /\ short2[1] = x1
      /\ \A i, j \in 1..5 : i < j => InteriorsDisjoint(faces[i], faces[j])
      \* the fold lines
      /\ Len(folds) = 4
      /\ \A f \in 1..Len(folds) : DashAt(calls, folds[f]) = <<2, 2>>
      /\ calls[folds[1]].args = <<x0, y0, x1, y0>>
      /\ calls[folds[2]].args = <<x0, y1, x1, y1>>
      /\ calls[folds[3]].args = <<x0, y0, x0, y1>>
      /\ calls[folds[4]].args = <<x1, y0, x1, y1>>

\* C26: in the unfolded layout the base is centred, each long wall lies on the
\* whole top or bottom edge of the base, each short wall on the whole left or
\* right edge, the five face rectangles have pairwise disjoint interiors, and
\* the four dashed fold lines lie on the four edges of the base.
C26_CrossLayout ==
  (pdf # NoPdf /\ LayoutDrawn) => CrossLayout(pdf.calls)

\* |a - b|
Distance(a, b) == LET df == Sub(a, b) IN IF df.n < 0 THEN Neg(df) ELSE df

\* the compact position of a group: the base at height 0, each wall on its
\* edge of the base
CompactPosition(g) ==
  CASE g = "bottom"     -> I(0)
    [] g = "wallLong1"  -> Neg(Div(dimensions.width, I(2)))
    [] g = "wallLong2"  -> Div(dimensions.width, I(2))
    [] g = "wallShort1" -> Neg(Div(dimensions.length, I(2)))
    [] g = "wallShort2" -> Div(dimensions.length, I(2))

\* the exploded position: the base 0.5 lower, each wall 1.5 farther out
ExplodedPosition(g) ==
  CASE g = "bottom"     -> Q(-1, 2)
    [] g = "wallLong1"  -> Sub(CompactPosition(g), Q(3, 2))
    [] g = "wallLong2"  -> Add(CompactPosition(g), Q(3, 2))
    [] g = "wallShort1" -> Sub(CompactPosition(g), Q(3, 2))
    [] g = "wallShort2" -> Add(CompactPosition(g), Q(3, 2))

AnimationTarget(g) ==
  IF isExploded THEN ExplodedPosition(g) ELSE CompactPosition(g)

Groups == {"bottom", "wallLong1", "wallLong2", "wallShort1", "wallShort2"}

\* how far a group is from its target when the explode flag has just been
\* toggled
ExplodeOffset(g) == IF g = "bottom" THEN Q(1, 2) ELSE Q(3, 2)

RECURSIVE Power(_, _)
Power(a, n) == IF n = 0 THEN I(1) ELSE Mul(a, Power(a, n - 1))

\* every animated coordinate is at (9/10)^n of its explode offset from its
\* target
OffTarget(n) ==
  \A g \in Groups :
    Distance(position[g], AnimationTarget(g))
      = Mul(ExplodeOffset(g), Power(Q(9, 10), n))

\* the dimensions set while the view is animated
AnimDimensions ==
  { [length |-> l, width |-> w, depth |-> I(0), sfido |-> I(0)] :
      l \in {I(0), I(4)}, w \in {I(0), I(3)} }

\* a frame moves every coordinate to current + 0.1 * (target - current):
\* 9/10 as far from the target as before, and not beyond it
FrameStep ==
  \A g \in Groups :
    LET target == AnimationTarget(g)
        cur    == position[g]
        new    == position'[g]
    IN  /\ new = Add(cur, Mul(Q(1, 10), Sub(target, cur)))
        /\ Distance(new, target) = Mul(Q(9, 10), Distance(cur, target))
        /\ Le(Distance(new, target), Distance(cur, target))
        /\ \/ Le(cur, new) /\ Le(new, target)
           \/ Le(target, new) /\ Le(new, cur)
        /\ cur # target => new # cur

DimKeys == {"length", "width", "depth", "sfido"}

ColorKeys == {"bottom", "sides_long", "sides_short", "sfido"}

\* C28: a sidebar edit changes only what it names: handleDimChange(key, text)
\* leaves the other three dimensions, every colour and the explode flag as
\* they are; handleColorChange(key, value) sets colour key to value and leaves
\* every dimension, every other colour and the explode flag as they are.
C28_EditFrame ==
  /\ [][\A in \in DimInputs :
          handleDimChange(in[1], in[2]) =>
            /\ \A k \in DimKeys \ {in[1]} : dimensions'[k] = dimensions[k]
            /\ colors' = colors
            /\ isExploded' = isExploded]_vars
  /\ [][\A in \in ColorInputs :
          handleColorChange(in[1], in[2]) =>
            /\ colors'[in[1]] = in[2]
            /\ \A k \in ColorKeys \ {in[1]} : colors'[k] = colors[k]
            /\ dimensions' = dimensions
            /\ isExploded' = isExploded]_vars
  /\ [][/\ dimensions' # dimensions =>
            /\ Cardinality({k \in DimKeys : dimensions'[k] # dimensions[k]}) = 1
            /\ colors' = colors /\ isExploded' = isExploded
        /\ colors' # colors =>
            /\ Cardinality({k \in ColorKeys : colors'[k] # colors[k]}) = 1
            /\ dimensions' = dimensions /\ isExploded' = isExploded]_vars

\* edits of length, width and overlap and of one colour, in the exploded
\* view: each edit has kept what the earlier ones set
C28_Witness ==
  /\ dimensions = [length |-> I(4), width |-> I(3), depth |-> I(0), sfido |-> Q(1, 5)]
  /\ colors = [InitColors EXCEPT !.sides_short = Text("#ffffff")]
  /\ isExploded

\* the typed texts that are empty or do not parse as a number
NonNumericInputs ==
  { in \in DimInputs \cup AnimDimInputs :
      in[2] = <<>> \/ IsNaN(ParseFloat(in[2])) }

\* C29: a text that is empty or does not parse as a number is stored as 0,
\* not as NaN: after any sequence of edits no stored dimension is NaN.
C29_NeverNaN ==
  /\ [](\A k \in DimKeys : ~IsNaN(dimensions[k]))
  /\ [][\A in \in NonNumericInputs :
          handleDimChange(in[1], in[2]) => dimensions'[in[1]] = I(0)]_vars

\* the width set back to 0 by a text that is no number, in the exploded view
\* already in motion: the long walls are at their compact position 0 again
\* while the short walls have moved
C29_Witness ==
  /\ frames > 0
  /\ dimensions.width = I(0)
  /\ position.wallLong1 = I(0) /\ position.wallLong2 = I(0)
  /\ position.wallShort2 # Div(dimensions.length, I(2))

\* C30: in every state the surfaces list holds exactly three records, with
\* ids bottom, sides_long, sides_short in that order, each with the colour
\* now set for its id; the three lookups of the 3D model each find the
\* record of their id.
C30_SurfacesShape ==
  /\ Len(surfaces) = 3
  /\ surfaces[1].id = "bottom"
  /\ surfaces[2].id = "sides_long"
  /\ surfaces[3].id = "sides_short"
  /\ \A i \in 1..3 : surfaces[i].color = colors[surfaces[i].id]
  /\ LET face == FaceData(surfaces)
     IN  /\ ~IsUndefined(face.bottom) /\ face.bottom = surfaces[1]
         /\ ~IsUndefined(face.sideLong) /\ face.sideLong = surfaces[2]
         /\ ~IsUndefined(face.sideShort) /\ face.sideShort = surfaces[3]

\* after edits of the dimensions and of two colours the list carries the
\* new colours
C30_Witness ==
  /\ dimensions.length = I(4) /\ dimensions.depth = Q(5, 2)
  /\ colors.bottom = Text("#000000")
  /\ colors.sides_short = Text("#ffffff")
  /\ surfaces[1].color = Text("#000000")
  /\ surfaces[3].color = Text("#ffffff")
  /\ FaceData(surfaces).sideLong.color = InitColors.sides_long

====
